---- MODULE Spec2Model ----
(***************************************************************************)
(* A model of wrpnng: the outbound Sender (internal/sender/sender.go), the *)
(* senderMap routing table (sendermap.go) and the Server that owns them    *)
(* (server.go).                                                            *)
(*                                                                         *)
(* Every goroutine is a process with a call stack of frames.  A frame is a *)
(* record of the call's arguments and locals; the top frame of a stack is  *)
(* the call that runs.  One action is one step of one method,     *)
(* between two points where the goroutine can block (a mutex, a channel).  *)
(* Errors are sets of error names: {} is nil, errors.Join is set union and *)
(* errors.Is(e, x) is x \in e.                                             *)
(***************************************************************************)
EXTENDS Integers, Sequences, FiniteSets, TLC

\* ---- bounds ----
MaxConn == 3
MaxOps == 3
NumUsers == 2
NumWorkers == 2
NumRoutines == 3

\* ---- processes ----
Users == 1..NumUsers
Workers == (NumUsers + 1)..(NumUsers + NumWorkers)
Routines == (NumUsers + NumWorkers + 1)..(NumUsers + NumWorkers + NumRoutines)
Procs == Users \cup Workers \cup Routines

\* ---- data ----
Names == {"A", "B"}
NoName == ""
Conns == 1..MaxConn
NoConn == 0
NoProc == 0

ErrNil == {}
ErrNotHandled == {"ErrNotHandled"}
ErrorInvalidLocator == {"ErrorInvalidLocator"}
ErrConnClosed == {"ErrConnClosed"}
ErrFailedToSend == {"ErrFailedToSend"}
ErrCanceled == {"context.Canceled"}
ErrFactory == {"factory error"}
ErrDial == {"dial error"}
ErrSend == {"send error"}
ErrSendTimeout == {"ErrSendTimeout"}
ErrListen == {"listen error"}
ErrRecv == {"recv error"}
ErrRecvTimeout == {"ErrRecvTimeout"}
ErrClosed == {"ErrClosed"}
ErrInvalidMsg == {"invalid message"}
NoValue == {"<none>"}

\* errors.Join
Join(e1, e2) == e1 \cup e2

\* wrp message types the router distinguishes, and the messages of the model
MsgTypes == {"alive", "event", "auth", "register"}
Dests == {<<"mac", "id", "A">>, <<"mac", "id", "C">>, <<"A", "x">>}
NoDest == <<>>
NoURL == ""
URLs == {"tcp://service"}
\* the authorization message upsert sends to a Sender it installed
AuthMsg == [type |-> "auth", dest |-> NoDest, ServiceName |-> NoName, URL |-> NoURL]
\* a message of type t to destination d
Msg(t, d) == [AuthMsg EXCEPT !.type = t, !.dest = d]
\* a message with the fields of a service registration
RegMsg(t, name, url) == [Msg(t, NoDest) EXCEPT !.ServiceName = name, !.URL = url]
AliveMsg == Msg("alive", NoDest)
UserMsgs == {AliveMsg} \cup {Msg("event", d) : d \in Dests}

\* wrp.ParseLocator: scheme:authority[/service[/ignored]]; a string that does
\* not start with a known scheme is invalid, a locator without a service part
\* parses to the empty service.
Schemes == {"mac", "uuid", "dns", "serial", "event", "self"}
ParseLocator(d) ==
    IF Len(d) >= 2 /\ d[1] \in Schemes
    THEN [err |-> ErrNil, Service |-> IF Len(d) >= 3 THEN d[3] ELSE NoName]
    ELSE [err |-> ErrorInvalidLocator, Service |-> NoName]

VARIABLES
    senders,    \* senderMap.senders: name -> connection, NoConn when absent
    smlock,     \* senderMap.lock: the process holding the write lock
    nextConn,   \* the next Sender the factory creates
    owner,      \* the name captured by the Sender's close listener
    sock,       \* Sender.sock != nil
    slock,      \* Sender.lock is held
    opens,      \* successful dials of the Sender's endpoint
    closes,     \* sock.Close() calls on the Sender's endpoint
    notif,      \* the reasons the Sender's close listeners were called with
    calls,      \* Sender.ProcessWRP invocations
    wire,       \* the message types the endpoint transmitted
    stack,      \* the call stack of every goroutine
    rv,         \* the rv channel of a send goroutine
    cancelled,  \* the context of the user's call is cancelled
    result,     \* the last call a user, or handleRegisterMsg, finished and what it returned
    ops,        \* the calls made, frames received and heartbeats sent so far
    srv,        \* Server: lock, heartbeatCancel, wg, the heartbeats (ticks) and the
                \* messages of ProcessWRP (observed) txObservers saw
    rcv,        \* Receiver: lock, cancel, wg, what onFailure was called with, the
                \* sockets opened, the frames decoded, the frames onMsg observed
    chain       \* stopping.Processors.ProcessWRP: its inputs, position and trace

vars == <<senders, smlock, nextConn, owner, sock, slock, opens, closes, notif,
          calls, wire, stack, rv, cancelled, result, ops, srv, rcv, chain>>

connVars == <<nextConn, owner, sock, slock, opens, closes, notif, calls, wire>>

\* ---- frames ----
\* the goroutine a receive loop starts for sock.Recv() with its recvChan and
\* errChan: no goroutine, Recv in progress, or what Recv returned
NoRecv == [st |-> "none", msg |-> AuthMsg, err |-> ErrNil]
Pending == [NoRecv EXCEPT !.st = "pending"]

\* the locals of a call that has not run yet
NoFrame ==
    [op |-> "none", pc |-> "none", name |-> NoName, conn |-> NoConn, ctx |-> "bg",
     msg |-> AuthMsg, snap |-> {}, todo |-> {}, called |-> <<>>,
     existing |-> NoConn, w |-> NoProc, err |-> ErrNil, ret |-> NoValue,
     recv |-> NoRecv, seq |-> 0]

Frame(op, pc, name, conn, ctx, msg) ==
    [NoFrame EXCEPT !.op = op, !.pc = pc, !.name = name, !.conn = conn,
                    !.ctx = ctx, !.msg = msg]

Depth(p) == Len(stack[p])
Top(p) == stack[p][Depth(p)]
Running(p, op, pc) == Depth(p) > 0 /\ Top(p).op = op /\ Top(p).pc = pc
Idle(p) == stack[p] = <<>>

\* the stack of p with its top frame replaced
SetTop(p, f) == [stack[p] EXCEPT ![Depth(p)] = f]
\* the stack of p with callee pushed over its (updated) top frame
Call(p, f, callee) == Append(SetTop(p, f), callee)
\* A frame that has nothing left to do but return when its callee returns:
\* `return nil` after the listeners of Sender.Close, `return nil` after the
\* authorization send of upsert, `return err` after the failed dial of upsert,
\* `return target.ProcessWRP(ctx, msg)` of senderMap.ProcessWRP,
\* `return srv.senders.Upsert(...)` of Server.handleRegisterMsg,
\* `return srv.ingressChain.ProcessWRP(ctx, msg)` of Server.ProcessWRP, whose
\* chain ends with the senderMap.
IsTail(f) ==
    \/ f.op = "Close" /\ f.pc = "ret"
    \/ f.op = "upsert" /\ f.pc \in {"ret", "failed"}
    \/ f.op = "ProcessWRP" /\ f.pc = "ret"
    \/ f.op = "handleRegisterMsg" /\ f.pc = "ret"
    \/ f.op = "Server.ProcessWRP" /\ f.pc = "ret"

\* a senderMap.ProcessWRP that drops the error of the Sender it called
TailValue_DropsSendError(f, val) ==
    IF f.op = "upsert" /\ f.pc = "failed" THEN f.err ELSE ErrNil

\* what such a frame returns when its callee returned val
TailValue(f, val) ==
    IF f.op \in {"ProcessWRP", "handleRegisterMsg", "Server.ProcessWRP"} THEN val
    ELSE IF f.op = "upsert" /\ f.pc = "failed" THEN f.err
    ELSE ErrNil

\* the stack stk after the call above it returned val: frames that only
\* return are popped with it
RECURSIVE Unwind(_, _)
Unwind(stk, val) ==
    IF stk = <<>> THEN [stk |-> <<>>, val |-> val]
    ELSE LET f == stk[Len(stk)] IN
         IF IsTail(f) THEN Unwind(SubSeq(stk, 1, Len(stk) - 1), TailValue(f, val))
         ELSE [stk |-> [stk EXCEPT ![Len(stk)] = [f EXCEPT !.ret = val]], val |-> val]

Popped(p, val) == Unwind(SubSeq(stack[p], 1, Depth(p) - 1), val)

\* what the caller sees of a call that returned: the call, what it returned and
\* what the last Sender.ProcessWRP it made returned
Outcome(p, val) ==
    [op |-> stack[p][1].op, name |-> stack[p][1].name, msg |-> stack[p][1].msg,
     conn |-> stack[p][1].conn, snap |-> stack[p][1].snap,
     called |-> stack[p][1].called,
     sent |-> IF Top(p).op = "Send" THEN val ELSE NoValue,
     ret |-> Popped(p, val).val]

\* the results once the top frame of p has returned val
ResultAfter(p, val) ==
    IF /\ Popped(p, val).stk = <<>>
       /\ p \in Users \/ stack[p][1].op = "handleRegisterMsg"
    THEN [result EXCEPT ![p] = Outcome(p, val)]
    ELSE result

\* the top frame returns val: to the calling frame, or as the result of the
\* call a user made or of the registration handler the receive chain ran
Return(p, val) ==
    /\ stack' = [stack EXCEPT ![p] = Popped(p, val).stk]
    /\ result' = ResultAfter(p, val)

NoResult == [op |-> "none", name |-> NoName, msg |-> AuthMsg, conn |-> NoConn,
             snap |-> {}, called |-> <<>>, sent |-> NoValue, ret |-> NoValue]

\* ctx.Err() != nil for the context a frame carries
CtxDone(ctx, caller) ==
    ctx \in {"user", "hb"} /\ caller \in DOMAIN cancelled /\ cancelled[caller]

\* ---------------------------------------------------------------------------
\* Sender (internal/sender/sender.go)
\* ---------------------------------------------------------------------------

\* the close listeners of a Sender, which visitOnClose calls in sequence on
\* the calling goroutine: the model's listener records the reason, and a
\* Sender built by senderMap.upsert also carries func(error) { sm.Remove(name) }
HasRemoveListener(c) == owner[c] # NoName
RemoveListener(c, msg) == Frame("Remove", "lock", owner[c], NoConn, "bg", msg)

\* a Dial that dials a new socket whether or not the Sender has one
SenderDial_Redials(p, outcome) ==
    /\ Running(p, "Dial", "lock")
    /\ LET c == Top(p).conn IN
       /\ ~slock[c]
       /\ outcome \in {ErrNil, ErrDial}
       /\ sock' = [sock EXCEPT ![c] = (outcome = ErrNil)]
       /\ opens' = [opens EXCEPT ![c] = IF outcome = ErrNil THEN @ + 1 ELSE @]
       /\ Return(p, outcome)
    /\ UNCHANGED <<senders, smlock, nextConn, owner, slock, closes, notif, calls,
                   wire, rv, cancelled, ops, srv, rcv>>
    /\ UNCHANGED chain

\* Sender.Dial: idempotent while the socket is open, else dialNewSocket
SenderDial(p, outcome) ==
    /\ Running(p, "Dial", "lock")
    /\ LET c == Top(p).conn IN
       /\ ~slock[c]
       /\ IF sock[c]
          THEN /\ outcome = ErrNil
               /\ Return(p, ErrNil)
               /\ UNCHANGED <<sock, opens>>
          ELSE /\ outcome \in {ErrNil, ErrDial}
               /\ sock' = [sock EXCEPT ![c] = (outcome = ErrNil)]
               /\ opens' = [opens EXCEPT ![c] = IF outcome = ErrNil THEN @ + 1 ELSE @]
               /\ Return(p, outcome)
    /\ UNCHANGED <<senders, smlock, nextConn, owner, slock, closes, notif, calls,
                   wire, rv, cancelled, ops, srv, rcv>>
    /\ UNCHANGED chain

\* a Sender.Close that notifies the listeners on every call
CloseTriggers_Always(c) == TRUE

\* Sender.Close, `if s.sock != nil`: whether this call tears the socket down
\* and notifies the listeners
CloseTriggers(c) == sock[c]

\* Sender.Close, the locked part: close the socket when there is one
SenderClose_Lock(p) ==
    /\ Running(p, "Close", "lock")
    /\ LET c == Top(p).conn IN
       /\ ~slock[c]
       /\ IF CloseTriggers(c)
          THEN /\ sock' = [sock EXCEPT ![c] = FALSE]
               /\ closes' = [closes EXCEPT ![c] = @ + 1]
               /\ stack' = [stack EXCEPT ![p] = SetTop(p, [Top(p) EXCEPT !.pc = "visit"])]
               /\ UNCHANGED result
          ELSE /\ Return(p, ErrNil)
               /\ UNCHANGED <<sock, closes>>
    /\ UNCHANGED <<senders, smlock, nextConn, owner, slock, opens, notif, calls,
                   wire, rv, cancelled, ops, srv, rcv>>
    /\ UNCHANGED chain

\* Sender.Close, `if trigger { s.visitOnClose(nil) }`
SenderClose_Visit(p) ==
    /\ Running(p, "Close", "visit")
    /\ notif' = [notif EXCEPT ![Top(p).conn] = Append(@, ErrNil)]
    /\ IF HasRemoveListener(Top(p).conn)
       THEN /\ stack' = [stack EXCEPT ![p] =
                   Call(p, [Top(p) EXCEPT !.pc = "ret"],
                        RemoveListener(Top(p).conn, Top(p).msg))]
            /\ UNCHANGED result
       ELSE Return(p, ErrNil)
    /\ UNCHANGED <<senders, smlock, nextConn, owner, sock, slock, opens, closes,
                   calls, wire, rv, cancelled, ops, srv, rcv>>
    /\ UNCHANGED chain

\* a send goroutine that is not running and whose rv channel nobody reads
FreeWorker(w) == Idle(w) /\ rv[w] = NoValue
SpawnWorker == CHOOSE w \in Workers : FreeWorker(w) /\ \A v \in Workers : FreeWorker(v) => w <= v

\* a Sender.ProcessWRP that does not look whether the socket is there
Send_Lock_NoClosedCheck(p) ==
    /\ Running(p, "Send", "lock")
    /\ LET c == Top(p).conn IN
       /\ ~slock[c]
       /\ \E w \in Workers : FreeWorker(w)
       /\ LET w == SpawnWorker IN
          /\ slock' = [slock EXCEPT ![c] = TRUE]
          /\ stack' = [stack EXCEPT
                ![p] = SetTop(p, [Top(p) EXCEPT !.pc = "wait", !.w = w]),
                ![w] = <<[Frame("goSend", "send", NoName, c, Top(p).ctx, Top(p).msg)
                             EXCEPT !.w = p]>>]
          /\ rv' = [rv EXCEPT ![w] = NoValue]
          /\ UNCHANGED result
    /\ UNCHANGED <<senders, smlock, nextConn, owner, sock, opens, closes, notif,
                   calls, wire, cancelled, ops, srv, rcv>>
    /\ UNCHANGED chain

\* Sender.ProcessWRP up to `go func()`: ErrConnClosed without a socket, else
\* the goroutine takes over the lock and the caller goes to the select
Send_Lock(p) ==
    /\ Running(p, "Send", "lock")
    /\ LET c == Top(p).conn IN
       /\ ~slock[c]
       /\ IF ~sock[c]
          THEN /\ Return(p, ErrConnClosed)
               /\ UNCHANGED <<slock, rv>>
          ELSE /\ \E w \in Workers : FreeWorker(w)
               /\ LET w == SpawnWorker IN
                  /\ slock' = [slock EXCEPT ![c] = TRUE]
                  /\ stack' = [stack EXCEPT
                        ![p] = SetTop(p, [Top(p) EXCEPT !.pc = "wait", !.w = w]),
                        ![w] = <<[Frame("goSend", "send", NoName, c, Top(p).ctx, Top(p).msg)
                                     EXCEPT !.w = p]>>]
                  /\ rv' = [rv EXCEPT ![w] = NoValue]
                  /\ UNCHANGED result
    /\ UNCHANGED <<senders, smlock, nextConn, owner, sock, opens, closes, notif,
                   calls, wire, cancelled, ops, srv, rcv>>
    /\ UNCHANGED chain

\* a Sender.ProcessWRP that gives up the Sender's lock when its caller leaves
\* by the context
Send_Wait_UnlocksOnCancel(p, byCtx) ==
    /\ Running(p, "Send", "wait")
    /\ LET w == Top(p).w IN
       /\ IF byCtx
          THEN /\ CtxDone(Top(p).ctx, p)
               /\ stack' = [stack EXCEPT
                      ![p] = Popped(p, ErrCanceled).stk,
                      ![w] = IF Idle(w) THEN <<>>
                             ELSE [stack[w] EXCEPT ![1] = [@ EXCEPT !.w = NoProc]]]
               /\ result' = ResultAfter(p, ErrCanceled)
               /\ slock' = [slock EXCEPT ![Top(p).conn] = FALSE]
          ELSE /\ rv[w] # NoValue
               /\ Return(p, rv[w])
               /\ UNCHANGED slock
       /\ rv' = [rv EXCEPT ![w] = NoValue]
    /\ UNCHANGED <<senders, smlock, nextConn, owner, sock, opens, closes, notif,
                   calls, wire, cancelled, ops, srv, rcv>>
    /\ UNCHANGED chain

\* Sender.ProcessWRP, `select { case <-ctx.Done(): ...; case err := <-rv: ... }`:
\* a caller that leaves by its context no longer reads rv
Send_Wait(p, byCtx) ==
    /\ Running(p, "Send", "wait")
    /\ LET w == Top(p).w IN
       /\ IF byCtx
          THEN /\ CtxDone(Top(p).ctx, p)
               /\ stack' = [stack EXCEPT
                      ![p] = Popped(p, ErrCanceled).stk,
                      ![w] = IF Idle(w) THEN <<>>
                             ELSE [stack[w] EXCEPT ![1] = [@ EXCEPT !.w = NoProc]]]
               /\ result' = ResultAfter(p, ErrCanceled)
          ELSE /\ rv[w] # NoValue
               /\ Return(p, rv[w])
       /\ rv' = [rv EXCEPT ![w] = NoValue]
    /\ UNCHANGED <<senders, smlock, connVars, cancelled, ops, srv, rcv>>
    /\ UNCHANGED chain

\* what send goroutine w puts on rv: nothing once the caller has left
Deliver(w, f, val) ==
    IF f.w = NoProc THEN UNCHANGED rv ELSE rv' = [rv EXCEPT ![w] = val]

\* the outcomes of sock.Send: sent, the send deadline expired, the link broke
SendOutcomes == {ErrNil, ErrSendTimeout, ErrSend}

\* a send goroutine that keeps the socket when the send deadline expired
GoSend_Send_TimeoutKeepsOpen(w, outcome) ==
    /\ w \in Workers
    /\ Running(w, "goSend", "send")
    /\ outcome \in SendOutcomes
    /\ LET f == Top(w)
           c == f.conn IN
       /\ slock' = [slock EXCEPT ![c] = FALSE]
       /\ IF outcome = ErrSend
          THEN /\ sock' = [sock EXCEPT ![c] = FALSE]
               /\ closes' = [closes EXCEPT ![c] = @ + 1]
               /\ stack' = [stack EXCEPT ![w] = <<[f EXCEPT !.pc = "visit", !.err = outcome]>>]
               /\ UNCHANGED <<wire, rv>>
          ELSE /\ wire' = IF outcome = ErrNil
                          THEN [wire EXCEPT ![c] = Append(@, f.msg.type)] ELSE wire
               /\ stack' = [stack EXCEPT ![w] = <<[f EXCEPT !.pc = "report", !.err = outcome]>>]
               /\ UNCHANGED <<sock, closes, rv>>
    /\ UNCHANGED <<senders, smlock, nextConn, owner, opens, notif, calls,
                   cancelled, result, ops, srv, rcv>>
    /\ UNCHANGED chain

\* a send goroutine that stops, and leaves the socket as it is, when the
\* context of its caller is done
GoSend_Send_StopsOnCancel(w, outcome) ==
    /\ w \in Workers
    /\ Running(w, "goSend", "send")
    /\ outcome \in SendOutcomes
    /\ LET f == Top(w)
           c == f.conn
           gone == f.w = NoProc \/ CtxDone(f.ctx, f.w) IN
       /\ slock' = [slock EXCEPT ![c] = FALSE]
       /\ IF outcome # ErrNil /\ ~gone
          THEN /\ sock' = [sock EXCEPT ![c] = FALSE]
               /\ closes' = [closes EXCEPT ![c] = @ + 1]
               /\ stack' = [stack EXCEPT ![w] = <<[f EXCEPT !.pc = "visit", !.err = outcome]>>]
               /\ UNCHANGED <<wire, rv>>
          ELSE /\ wire' = IF gone THEN wire ELSE [wire EXCEPT ![c] = Append(@, f.msg.type)]
               /\ stack' = [stack EXCEPT ![w] =
                      <<[f EXCEPT !.pc = "report",
                                  !.err = IF gone THEN ErrCanceled ELSE ErrNil]>>]
               /\ UNCHANGED <<sock, closes, rv>>
    /\ UNCHANGED <<senders, smlock, nextConn, owner, opens, notif, calls,
                   cancelled, result, ops, srv, rcv>>
    /\ UNCHANGED chain

\* the send goroutine, `err := s.sock.Send(buf)` to the unlock of either
\* branch: any error closes the socket
GoSend_Send(w, outcome) ==
    /\ w \in Workers
    /\ Running(w, "goSend", "send")
    /\ outcome \in SendOutcomes
    /\ LET f == Top(w)
           c == f.conn IN
       /\ slock' = [slock EXCEPT ![c] = FALSE]
       /\ IF outcome # ErrNil
          THEN /\ sock' = [sock EXCEPT ![c] = FALSE]
               /\ closes' = [closes EXCEPT ![c] = @ + 1]
               /\ stack' = [stack EXCEPT ![w] = <<[f EXCEPT !.pc = "visit", !.err = outcome]>>]
               /\ UNCHANGED <<wire, rv>>
          ELSE /\ wire' = [wire EXCEPT ![c] = Append(@, f.msg.type)]
               /\ stack' = [stack EXCEPT ![w] = <<[f EXCEPT !.pc = "report", !.err = ErrNil]>>]
               /\ UNCHANGED <<sock, closes, rv>>
    /\ UNCHANGED <<senders, smlock, nextConn, owner, opens, notif, calls,
                   cancelled, result, ops, srv, rcv>>
    /\ UNCHANGED chain

\* the reason a failed send hands to the close listeners
SendFailure(err) == Join(err, ErrFailedToSend)

\* the send goroutine, `s.visitOnClose(errors.Join(err, ErrFailedToSend))`
GoSend_Visit(w) ==
    /\ w \in Workers
    /\ Running(w, "goSend", "visit")
    /\ notif' = [notif EXCEPT ![Top(w).conn] = Append(@, SendFailure(Top(w).err))]
    /\ stack' = [stack EXCEPT ![w] =
           IF HasRemoveListener(Top(w).conn)
           THEN Call(w, [Top(w) EXCEPT !.pc = "deliver"],
                     RemoveListener(Top(w).conn, Top(w).msg))
           ELSE SetTop(w, [Top(w) EXCEPT !.pc = "deliver"])]
    /\ UNCHANGED <<senders, smlock, nextConn, owner, sock, slock, opens, closes,
                   calls, wire, rv, cancelled, result, ops, srv, rcv>>
    /\ UNCHANGED chain

\* the send goroutine, `rv <- err` after the listeners returned
GoSend_Deliver(w) ==
    /\ w \in Workers
    /\ Depth(w) = 1
    /\ Running(w, "goSend", "deliver")
    /\ Deliver(w, Top(w), Top(w).err)
    /\ stack' = [stack EXCEPT ![w] = <<>>]
    /\ UNCHANGED <<senders, smlock, connVars, cancelled, result, ops, srv, rcv>>
    /\ UNCHANGED chain

\* the send goroutine after the unlock of a send that succeeded,
\* `if ctx.Err() != nil { err = ctx.Err() }; rv <- err`
GoSend_Report(w) ==
    /\ w \in Workers
    /\ Running(w, "goSend", "report")
    /\ Deliver(w, Top(w), IF CtxDone(Top(w).ctx, Top(w).w) THEN ErrCanceled
                           ELSE Top(w).err)
    /\ stack' = [stack EXCEPT ![w] = <<>>]
    /\ UNCHANGED <<senders, smlock, connVars, cancelled, result, ops, srv, rcv>>
    /\ UNCHANGED chain

\* the caller of a call cancels the context it passed
CancelCtx(p) ==
    /\ p \in Users
    /\ Depth(p) > 0
    /\ stack[p][1].ctx = "user"
    /\ ~cancelled[p]
    /\ cancelled' = [cancelled EXCEPT ![p] = TRUE]
    /\ UNCHANGED <<senders, smlock, connVars, stack, rv, result, ops, srv, rcv>>
    /\ UNCHANGED chain

\* ---------------------------------------------------------------------------
\* senderMap (sendermap.go)
\* ---------------------------------------------------------------------------

\* sm.senders[name], nil for a name that is no key
Lookup(name) == IF name \in DOMAIN senders THEN senders[name] ELSE NoConn

\* the senders in the table
Registered == {senders[n] : n \in DOMAIN senders} \ {NoConn}

\* p calls s.ProcessWRP(ctx, msg) on Sender c from frame f, which notes the
\* Senders it has called
CallSend(p, f, c, ctx, msg) ==
    /\ stack' = [stack EXCEPT ![p] =
           Call(p, [f EXCEPT !.called = Append(@, c)],
                Frame("Send", "lock", NoName, c, ctx, msg))]
    /\ calls' = [calls EXCEPT ![c] = @ + 1]

\* the outcomes of factory(opts...): a Sender, or an error
FactoryOutcomes == {ErrNil, ErrFactory}

\* senderMap.upsert, `s, err := factory(opts...)` and the call of s.Dial():
\* the new Sender carries the listener that removes `name`
Upsert_New(p, outcome) ==
    /\ Running(p, "upsert", "new")
    /\ outcome \in FactoryOutcomes
    /\ IF outcome # ErrNil
       THEN /\ Return(p, outcome)
            /\ UNCHANGED <<nextConn, owner>>
       ELSE /\ nextConn <= MaxConn
            /\ owner' = [owner EXCEPT ![nextConn] = Top(p).name]
            /\ nextConn' = nextConn + 1
            /\ stack' = [stack EXCEPT ![p] =
                   Call(p, [Top(p) EXCEPT !.pc = "dialed", !.conn = nextConn],
                        Frame("Dial", "lock", NoName, nextConn, "bg", Top(p).msg))]
            /\ UNCHANGED result
    /\ UNCHANGED <<senders, smlock, sock, slock, opens, closes, notif, calls, wire,
                   rv, cancelled, ops, srv, rcv>>
    /\ UNCHANGED chain

\* an upsert that goes on to install the Sender although the dial failed
Upsert_Dialed_IgnoresError(p) ==
    /\ Running(p, "upsert", "dialed")
    /\ stack' = [stack EXCEPT ![p] = SetTop(p, [Top(p) EXCEPT !.pc = "lock"])]
    /\ UNCHANGED <<senders, smlock, connVars, rv, cancelled, result, ops, srv, rcv>>
    /\ UNCHANGED chain

\* senderMap.upsert, `if err != nil { _ = s.Close(); return err }`
Upsert_Dialed(p) ==
    /\ Running(p, "upsert", "dialed")
    /\ stack' = [stack EXCEPT ![p] =
           IF Top(p).ret # ErrNil
           THEN Call(p, [Top(p) EXCEPT !.pc = "failed", !.err = Top(p).ret],
                     Frame("Close", "lock", NoName, Top(p).conn, "bg", Top(p).msg))
           ELSE SetTop(p, [Top(p) EXCEPT !.pc = "lock"])]
    /\ UNCHANGED <<senders, smlock, connVars, rv, cancelled, result, ops, srv, rcv>>
    /\ UNCHANGED chain

\* an upsert that replaces the entry without closing the Sender it held
Upsert_Lock_KeepsExisting(p) ==
    /\ Running(p, "upsert", "lock")
    /\ smlock = NoProc
    /\ smlock' = p
    /\ stack' = [stack EXCEPT ![p] =
           SetTop(p, [Top(p) EXCEPT !.pc = "install",
                                    !.existing = senders[Top(p).name]])]
    /\ UNCHANGED <<senders, connVars, rv, cancelled, result, ops, srv, rcv>>
    /\ UNCHANGED chain

\* senderMap.upsert, sm.lock.Lock() to `_ = existing.Close()`
Upsert_Lock(p) ==
    /\ Running(p, "upsert", "lock")
    /\ smlock = NoProc
    /\ smlock' = p
    /\ LET existing == senders[Top(p).name] IN
       stack' = [stack EXCEPT ![p] =
           IF existing # NoConn
           THEN Call(p, [Top(p) EXCEPT !.pc = "install", !.existing = existing],
                     Frame("Close", "lock", NoName, existing, "bg", Top(p).msg))
           ELSE SetTop(p, [Top(p) EXCEPT !.pc = "install"])]
    /\ UNCHANGED <<senders, connVars, rv, cancelled, result, ops, srv, rcv>>
    /\ UNCHANGED chain

\* senderMap.upsert, `sm.senders[name] = s` and sm.lock.Unlock()
Upsert_Install(p) ==
    /\ Running(p, "upsert", "install")
    /\ senders' = [senders EXCEPT ![Top(p).name] = Top(p).conn]
    /\ smlock' = NoProc
    /\ stack' = [stack EXCEPT ![p] = SetTop(p, [Top(p) EXCEPT !.pc = "auth"])]
    /\ UNCHANGED <<connVars, rv, cancelled, result, ops, srv, rcv>>
    /\ UNCHANGED chain

\* senderMap.upsert, the authorization message sent to the new Sender
Upsert_Auth(p) ==
    /\ Running(p, "upsert", "auth")
    /\ CallSend(p, [Top(p) EXCEPT !.pc = "ret"], Top(p).conn, "bg", AuthMsg)
    /\ UNCHANGED <<senders, smlock, nextConn, owner, sock, slock, opens, closes,
                   notif, wire, rv, cancelled, result, ops, srv, rcv>>
    /\ UNCHANGED chain

\* senderMap.Remove, sm.lock.Lock() to `_ = s.Close()`
Remove_Lock(p) ==
    /\ Running(p, "Remove", "lock")
    /\ smlock = NoProc
    /\ smlock' = p
    /\ LET s == senders[Top(p).name] IN
       stack' = [stack EXCEPT ![p] =
           IF s # NoConn
           THEN Call(p, [Top(p) EXCEPT !.pc = "delete", !.conn = s],
                     Frame("Close", "lock", NoName, s, "bg", Top(p).msg))
           ELSE SetTop(p, [Top(p) EXCEPT !.pc = "unlock"])]
    /\ UNCHANGED <<senders, connVars, rv, cancelled, result, ops, srv, rcv>>
    /\ UNCHANGED chain

\* senderMap.Remove, `delete(sm.senders, name)` and the deferred Unlock
Remove_Delete(p) ==
    /\ Running(p, "Remove", "delete")
    /\ senders' = [senders EXCEPT ![Top(p).name] = NoConn]
    /\ smlock' = NoProc
    /\ Return(p, ErrNil)
    /\ UNCHANGED <<connVars, rv, cancelled, ops, srv, rcv>>
    /\ UNCHANGED chain

\* senderMap.Remove of a name that is not in the table: the deferred Unlock
Remove_Unlock(p) ==
    /\ Running(p, "Remove", "unlock")
    /\ smlock' = NoProc
    /\ Return(p, ErrNil)
    /\ UNCHANGED <<senders, connVars, rv, cancelled, ops, srv, rcv>>
    /\ UNCHANGED chain

\* senderMap.Close, sm.lock.Lock() and the start of the range over sm.senders
CloseAll_Lock(p) ==
    /\ Running(p, "CloseAll", "lock")
    /\ smlock = NoProc
    /\ smlock' = p
    /\ stack' = [stack EXCEPT ![p] =
           SetTop(p, [Top(p) EXCEPT !.pc = "loop", !.todo = Registered])]
    /\ UNCHANGED <<senders, connVars, rv, cancelled, result, ops, srv, rcv>>
    /\ UNCHANGED chain

\* senderMap.Close, `_ = s.Close()` for the next sender of the range
CloseAll_Loop(p, c) ==
    /\ Running(p, "CloseAll", "loop")
    /\ c \in Top(p).todo
    /\ stack' = [stack EXCEPT ![p] =
           Call(p, [Top(p) EXCEPT !.todo = @ \ {c}],
                Frame("Close", "lock", NoName, c, "bg", Top(p).msg))]
    /\ UNCHANGED <<senders, smlock, connVars, rv, cancelled, result, ops, srv, rcv>>
    /\ UNCHANGED chain

\* senderMap.Close, `sm.senders = nil` and the deferred Unlock
CloseAll_Clear(p) ==
    /\ Running(p, "CloseAll", "loop")
    /\ Top(p).todo = {}
    /\ senders' = [n \in Names |-> NoConn]
    /\ smlock' = NoProc
    /\ Return(p, ErrNil)
    /\ UNCHANGED <<connVars, rv, cancelled, ops, srv, rcv>>
    /\ UNCHANGED chain

\* senderMap.ProcessWRP of a ServiceAlive message: the copy of the sender
\* list under the read lock
Dispatch_Snapshot(p) ==
    /\ Running(p, "ProcessWRP", "start")
    /\ Top(p).msg.type = "alive"
    /\ smlock = NoProc
    /\ stack' = [stack EXCEPT ![p] =
           SetTop(p, [Top(p) EXCEPT !.pc = "each", !.snap = Registered,
                                    !.todo = Registered])]
    /\ UNCHANGED <<senders, smlock, connVars, rv, cancelled, result, ops, srv, rcv>>
    /\ UNCHANGED chain

\* senderMap.ProcessWRP of a ServiceAlive message: `_ = s.ProcessWRP(ctx, msg)`
\* for the next sender of the copy
Dispatch_Each(p, c) ==
    /\ Running(p, "ProcessWRP", "each")
    /\ c \in Top(p).todo
    /\ CallSend(p, [Top(p) EXCEPT !.todo = @ \ {c}], c, Top(p).ctx, Top(p).msg)
    /\ UNCHANGED <<senders, smlock, nextConn, owner, sock, slock, opens, closes,
                   notif, wire, rv, cancelled, result, ops, srv, rcv>>
    /\ UNCHANGED chain

\* a broadcast that stops at the first Sender whose send failed and returns
\* that error
Dispatch_EachDone_StopsOnError(p) ==
    /\ Running(p, "ProcessWRP", "each")
    /\ Top(p).todo = {} \/ Top(p).ret \notin {ErrNil, NoValue}
    /\ Return(p, IF Top(p).ret = NoValue THEN ErrNil ELSE Top(p).ret)
    /\ UNCHANGED <<senders, smlock, connVars, rv, cancelled, ops, srv, rcv>>
    /\ UNCHANGED chain

\* senderMap.ProcessWRP of a ServiceAlive message: `return nil`
Dispatch_EachDone(p) ==
    /\ Running(p, "ProcessWRP", "each")
    /\ Top(p).todo = {}
    /\ Return(p, ErrNil)
    /\ UNCHANGED <<senders, smlock, connVars, rv, cancelled, ops, srv, rcv>>
    /\ UNCHANGED chain

\* senderMap.ProcessWRP of any other message with a destination that does not
\* parse: `return err`
Dispatch_BadLocator(p) ==
    /\ Running(p, "ProcessWRP", "start")
    /\ Top(p).msg.type # "alive"
    /\ ParseLocator(Top(p).msg.dest).err # ErrNil
    /\ Return(p, ParseLocator(Top(p).msg.dest).err)
    /\ UNCHANGED <<senders, smlock, connVars, rv, cancelled, ops, srv, rcv>>
    /\ UNCHANGED chain

\* senderMap.ProcessWRP, `target := sm.senders[dest.Service]` under the read
\* lock, then the send to the target or ErrNotHandled
Dispatch_Lookup(p) ==
    /\ Running(p, "ProcessWRP", "start")
    /\ Top(p).msg.type # "alive"
    /\ ParseLocator(Top(p).msg.dest).err = ErrNil
    /\ smlock = NoProc
    /\ LET target == Lookup(ParseLocator(Top(p).msg.dest).Service) IN
       IF target # NoConn
       THEN /\ CallSend(p, [Top(p) EXCEPT !.pc = "ret", !.conn = target],
                        target, Top(p).ctx, Top(p).msg)
            /\ UNCHANGED result
       ELSE /\ Return(p, ErrNotHandled)
            /\ UNCHANGED calls
    /\ UNCHANGED <<senders, smlock, nextConn, owner, sock, slock, opens, closes,
                   notif, wire, rv, cancelled, ops, srv, rcv>>
    /\ UNCHANGED chain

\* ---------------------------------------------------------------------------
\* Receiver (internal/receiver/receiver.go) and Server (server.go)
\* ---------------------------------------------------------------------------

\* a goroutine of the Server or the Receiver that is not running
FreeRoutine(r) == r \in Routines /\ Idle(r)
SpawnRoutine == CHOOSE r \in Routines : FreeRoutine(r) /\ \A q \in Routines : FreeRoutine(q) => r <= q

\* the frame of a call without arguments
Plain(op, pc) == Frame(op, pc, NoName, NoConn, "bg", AuthMsg)

\* the outcomes of newSocket: a listening socket, or an error
ListenOutcomes == {ErrNil, ErrListen}

\* Receiver.wrapper in receive, blocked in the select of the first iteration
LoopFrame == [Plain("wrapper", "receive") EXCEPT !.recv = Pending, !.seq = 1]

\* a Listen that does not look at r.cancel
Rcv_Listen_IgnoresRunning(p, outcome) ==
    /\ Running(p, "Listen", "lock")
    /\ rcv.lock = NoProc
    /\ outcome \in ListenOutcomes
    /\ IF outcome # ErrNil
       THEN /\ Return(p, outcome)
            /\ UNCHANGED <<rcv, cancelled>>
       ELSE /\ \E r \in Routines : FreeRoutine(r)
            /\ LET r == SpawnRoutine IN
               /\ rcv' = [rcv EXCEPT !.cancel = r, !.wg = @ + 2, !.opened = @ + 1]
               /\ cancelled' = [cancelled EXCEPT ![r] = FALSE]
               /\ stack' = [stack EXCEPT ![p] = Popped(p, ErrNil).stk,
                                         ![r] = <<LoopFrame>>]
               /\ result' = ResultAfter(p, ErrNil)
    /\ UNCHANGED <<senders, smlock, connVars, rv, ops, srv>>
    /\ UNCHANGED chain

\* Receiver.Listen: a no-op while r.cancel is set, else a new socket, a new
\* context and `go r.wrapper(ctx, sock)`; the loop starts its first
\* sock.Recv() goroutine
Rcv_Listen(p, outcome) ==
    /\ Running(p, "Listen", "lock")
    /\ rcv.lock = NoProc
    /\ outcome \in ListenOutcomes
    /\ IF rcv.cancel # NoProc \/ outcome # ErrNil
       THEN /\ rcv.cancel # NoProc => outcome = ErrNil
            /\ Return(p, outcome)
            /\ UNCHANGED <<rcv, cancelled>>
       ELSE /\ \E r \in Routines : FreeRoutine(r)
            /\ LET r == SpawnRoutine IN
               /\ rcv' = [rcv EXCEPT !.cancel = r, !.wg = @ + 2, !.opened = @ + 1]
               /\ cancelled' = [cancelled EXCEPT ![r] = FALSE]
               /\ stack' = [stack EXCEPT ![p] = Popped(p, ErrNil).stk,
                                         ![r] = <<LoopFrame>>]
               /\ result' = ResultAfter(p, ErrNil)
    /\ UNCHANGED <<senders, smlock, connVars, rv, ops, srv>>
    /\ UNCHANGED chain

\* a Close that cancels the loop and keeps r.cancel
Rcv_Close_Lock_KeepsCancel(p) ==
    /\ Running(p, "RClose", "lock")
    /\ rcv.lock = NoProc
    /\ IF rcv.cancel # NoProc
       THEN /\ cancelled' = [cancelled EXCEPT ![rcv.cancel] = TRUE]
            /\ rcv' = [rcv EXCEPT !.lock = p]
            /\ stack' = [stack EXCEPT ![p] = SetTop(p, [Top(p) EXCEPT !.pc = "wait"])]
            /\ UNCHANGED result
       ELSE /\ Return(p, ErrNil)
            /\ UNCHANGED <<rcv, cancelled>>
    /\ UNCHANGED <<senders, smlock, connVars, rv, ops, srv>>
    /\ UNCHANGED chain

\* Receiver.Close, r.lock.Lock() to r.cancel(): nothing to do when r.cancel
\* is nil
Rcv_Close_Lock(p) ==
    /\ Running(p, "RClose", "lock")
    /\ rcv.lock = NoProc
    /\ IF rcv.cancel # NoProc
       THEN /\ cancelled' = [cancelled EXCEPT ![rcv.cancel] = TRUE]
            /\ rcv' = [rcv EXCEPT !.cancel = NoProc, !.lock = p]
            /\ stack' = [stack EXCEPT ![p] = SetTop(p, [Top(p) EXCEPT !.pc = "wait"])]
            /\ UNCHANGED result
       ELSE /\ Return(p, ErrNil)
            /\ UNCHANGED <<rcv, cancelled>>
    /\ UNCHANGED <<senders, smlock, connVars, rv, ops, srv>>
    /\ UNCHANGED chain

\* a Close that returns the context's error after it stopped the loop
Rcv_Close_Wait_ReturnsCancel(p) ==
    /\ Running(p, "RClose", "wait")
    /\ rcv.wg = 0
    /\ rcv' = [rcv EXCEPT !.lock = NoProc]
    /\ Return(p, ErrCanceled)
    /\ UNCHANGED <<senders, smlock, connVars, rv, cancelled, ops, srv>>
    /\ UNCHANGED chain

\* Receiver.Close, r.wg.Wait() and the deferred Unlock
Rcv_Close_Wait(p) ==
    /\ Running(p, "RClose", "wait")
    /\ rcv.wg = 0
    /\ rcv' = [rcv EXCEPT !.lock = NoProc]
    /\ Return(p, ErrNil)
    /\ UNCHANGED <<senders, smlock, connVars, rv, cancelled, ops, srv>>
    /\ UNCHANGED chain

\* the frames the Server's receive chain passes on to handleRegisterMsg:
\* registrations with and without a service name and a URL, and an event
RxMsgs ==
    {RegMsg("register", name, url) : name \in Names \cup {NoName}, url \in URLs \cup {NoURL}}
        \cup {RegMsg("event", "A", NoURL)}

\* the frames a standalone Receiver is sent: events
EventMsgs == {Msg("event", <<"mac", "id", "A">>)}

\* what sock.Recv() returns on a listening socket: a frame that decodes to a
\* message, a frame that does not decode, a timeout, or another error
RecvOutcomes(msgs) ==
    {[Pending EXCEPT !.st = "bytes", !.msg = m] : m \in msgs}
        \cup {[Pending EXCEPT !.st = "garbage"]}
        \cup {[Pending EXCEPT !.st = "error", !.err = e] : e \in {ErrRecvTimeout, ErrRecv}}

\* what sock.Recv() returns on a socket that was closed
ClosedOutcome == [Pending EXCEPT !.st = "error", !.err = ErrClosed]

\* the loop of routine r: its socket is open while it is in receive
IsLoop(r) == stack[r] # <<>> /\ stack[r][1].op = "wrapper"
SocketOpen(r) == IsLoop(r) /\ stack[r][1].pc = "receive"

\* The goroutine of one iteration: sock.Recv() returns, the result goes to
\* recvChan or errChan, and the deferred r.wg.Done() runs.  On a socket that
\* receive has closed Recv returns mangos.ErrClosed.
Rx_Recv(r, out, msgs) ==
    /\ r \in Routines
    /\ IsLoop(r)
    /\ stack[r][1].recv.st = "pending"
    /\ IF SocketOpen(r)
       THEN /\ out \in RecvOutcomes(msgs)
            /\ IF out.err = ErrRecv
               THEN UNCHANGED ops
               ELSE ops < MaxOps /\ ops' = ops + 1
       ELSE /\ out = ClosedOutcome
            /\ UNCHANGED ops
    /\ stack' = [stack EXCEPT ![r][1].recv = out]
    /\ rcv' = [rcv EXCEPT !.wg = @ - 1]
    /\ UNCHANGED <<senders, smlock, connVars, rv, cancelled, result, srv>>
    /\ UNCHANGED chain

\* the goroutine that visits onMsg with a decoded message: the recorder of a
\* standalone Receiver, or the Server's receive chain, which passes the
\* message to handleRegisterMsg
SubscriberFrame(sub, msg, seq) ==
    IF sub = "observe"
    THEN [Frame("observe", "visit", NoName, NoConn, "bg", msg) EXCEPT !.seq = seq]
    ELSE Frame("handleRegisterMsg", "check", msg.ServiceName, NoConn, "bg", msg)

\* a loop that decodes a frame and visits no subscriber with it
Rx_Frame_NoDispatch(r, sub) ==
    /\ Running(r, "wrapper", "receive")
    /\ Top(r).recv.st = "bytes"
    /\ \E d \in Routines : FreeRoutine(d)
    /\ stack' = [stack EXCEPT
           ![r] = SetTop(r, [Top(r) EXCEPT !.recv = Pending, !.seq = @ + 1])]
    /\ rcv' = [rcv EXCEPT !.nrx = @ + 1, !.wg = @ + 1]
    /\ UNCHANGED <<senders, smlock, connVars, rv, cancelled, result, ops, srv>>
    /\ UNCHANGED chain

\* Receiver.receive, `case buf = <-recvChan` with a frame that decodes: the
\* message goes to a new goroutine that visits onMsg, and the loop starts the
\* next sock.Recv() goroutine
Rx_Frame(r, sub) ==
    /\ Running(r, "wrapper", "receive")
    /\ Top(r).recv.st = "bytes"
    /\ \E d \in Routines : FreeRoutine(d)
    /\ stack' = [stack EXCEPT
           ![SpawnRoutine] = <<SubscriberFrame(sub, Top(r).recv.msg, rcv.nrx + 1)>>,
           ![r] = SetTop(r, [Top(r) EXCEPT !.recv = Pending, !.seq = @ + 1])]
    /\ rcv' = [rcv EXCEPT !.nrx = @ + 1, !.wg = @ + 1]
    /\ UNCHANGED <<senders, smlock, connVars, rv, cancelled, result, ops, srv>>
    /\ UNCHANGED chain

\* the recorder a standalone Receiver visits: it appends the message to what
\* it has seen
Rx_Observe(d) ==
    /\ Running(d, "observe", "visit")
    /\ rcv' = [rcv EXCEPT !.seen = Append(@, Top(d).seq)]
    /\ stack' = [stack EXCEPT ![d] = <<>>]
    /\ UNCHANGED <<senders, smlock, connVars, rv, cancelled, result, ops, srv>>
    /\ UNCHANGED chain

\* a handler that registers a service whatever URL the message carries
HandleRegister_SkipsURLCheck(p) ==
    /\ Running(p, "handleRegisterMsg", "check")
    /\ LET msg == Top(p).msg IN
         IF msg.type # "register"
         THEN Return(p, ErrNotHandled)
         ELSE IF msg.ServiceName = NoName
         THEN Return(p, ErrInvalidMsg)
         ELSE /\ stack' = [stack EXCEPT ![p] =
                     Call(p, [Top(p) EXCEPT !.pc = "ret"],
                          Frame("upsert", "new", msg.ServiceName, NoConn, "bg", AuthMsg))]
              /\ UNCHANGED result
    /\ UNCHANGED <<senders, smlock, connVars, rv, cancelled, ops, srv, rcv>>
    /\ UNCHANGED chain

\* Server.handleRegisterMsg up to `return srv.senders.Upsert(msg.ServiceName, opts)`
HandleRegister(p) ==
    /\ Running(p, "handleRegisterMsg", "check")
    /\ LET msg == Top(p).msg IN
         IF msg.type # "register"
         THEN Return(p, ErrNotHandled)
         ELSE IF msg.ServiceName = NoName \/ msg.URL = NoURL
         THEN Return(p, ErrInvalidMsg)
         ELSE /\ stack' = [stack EXCEPT ![p] =
                     Call(p, [Top(p) EXCEPT !.pc = "ret"],
                          Frame("upsert", "new", msg.ServiceName, NoConn, "bg", AuthMsg))]
              /\ UNCHANGED result
    /\ UNCHANGED <<senders, smlock, connVars, rv, cancelled, ops, srv, rcv>>
    /\ UNCHANGED chain

\* Receiver.receive, a frame that does not decode or `case err = <-errChan`
\* with mangos.ErrRecvTimeout: the loop starts the next sock.Recv() goroutine
Rx_Continue(r) ==
    /\ Running(r, "wrapper", "receive")
    /\ \/ Top(r).recv.st = "garbage"
       \/ Top(r).recv.st = "error" /\ Top(r).recv.err = ErrRecvTimeout
    /\ stack' = [stack EXCEPT
           ![r] = SetTop(r, [Top(r) EXCEPT !.recv = Pending, !.seq = @ + 1])]
    /\ rcv' = [rcv EXCEPT !.wg = @ + 1]
    /\ UNCHANGED <<senders, smlock, connVars, rv, cancelled, result, ops, srv>>
    /\ UNCHANGED chain

\* the error receive returns: errors.Join(err, ctx.Err())
Terminal(err, done) == Join(err, IF done THEN ErrCanceled ELSE ErrNil)

\* a loop that a receive timeout ends like any other error
Rx_Stop_OnTimeout(r, byCtx) ==
    /\ Running(r, "wrapper", "receive")
    /\ IF byCtx THEN cancelled[r] ELSE Top(r).recv.st = "error"
    /\ rcv' = [rcv EXCEPT !.wg = @ - 1]
    /\ stack' = [stack EXCEPT ![r] =
           Call(r, [Top(r) EXCEPT !.pc = "notify",
                       !.err = Terminal(IF byCtx THEN ErrCanceled ELSE Top(r).recv.err,
                                        cancelled[r])],
                Plain("RClose", "lock"))]
    /\ UNCHANGED <<senders, smlock, connVars, rv, cancelled, result, ops, srv>>
    /\ UNCHANGED chain

\* a loop whose cancellation ends it without an error
Rx_Stop_NilOnCancel(r, byCtx) ==
    /\ Running(r, "wrapper", "receive")
    /\ IF byCtx THEN cancelled[r]
       ELSE Top(r).recv.st = "error" /\ Top(r).recv.err # ErrRecvTimeout
    /\ rcv' = [rcv EXCEPT !.wg = @ - 1]
    /\ stack' = [stack EXCEPT ![r] =
           Call(r, [Top(r) EXCEPT !.pc = "notify",
                       !.err = IF byCtx THEN ErrNil
                               ELSE Terminal(Top(r).recv.err, cancelled[r])],
                Plain("RClose", "lock"))]
    /\ UNCHANGED <<senders, smlock, connVars, rv, cancelled, result, ops, srv>>
    /\ UNCHANGED chain

\* Receiver.receive, the end of the loop: `case <-ctx.Done()`, or
\* `case err = <-errChan` with an error that is no timeout; the socket is
\* closed, the deferred r.wg.Done() runs and wrapper calls r.Close()
Rx_Stop(r, byCtx) ==
    /\ Running(r, "wrapper", "receive")
    /\ IF byCtx THEN cancelled[r]
       ELSE Top(r).recv.st = "error" /\ Top(r).recv.err # ErrRecvTimeout
    /\ rcv' = [rcv EXCEPT !.wg = @ - 1]
    /\ stack' = [stack EXCEPT ![r] =
           Call(r, [Top(r) EXCEPT !.pc = "notify",
                       !.err = Terminal(IF byCtx THEN ErrCanceled ELSE Top(r).recv.err,
                                        cancelled[r])],
                Plain("RClose", "lock"))]
    /\ UNCHANGED <<senders, smlock, connVars, rv, cancelled, result, ops, srv>>
    /\ UNCHANGED chain

\* Receiver.wrapper, the visit of onFailure with the error of receive
Rx_Notify(r) ==
    /\ Running(r, "wrapper", "notify")
    /\ rcv' = [rcv EXCEPT !.notif = Append(@, Top(r).err)]
    /\ stack' = [stack EXCEPT ![r] = <<>>]
    /\ UNCHANGED <<senders, smlock, connVars, rv, cancelled, result, ops, srv>>
    /\ UNCHANGED chain

\* Server.Start, srv.lock.Lock() to the call of srv.r.Listen(): a no-op
\* while heartbeatCancel is set, else `go srv.sendHeartbeat(ctx)`
Srv_Start(p) ==
    /\ Running(p, "Start", "lock")
    /\ srv.lock = NoProc
    /\ IF srv.cancel # NoProc
       THEN /\ Return(p, ErrNil)
            /\ UNCHANGED <<srv, cancelled>>
       ELSE /\ \E h \in Routines : FreeRoutine(h)
            /\ LET h == SpawnRoutine IN
               /\ srv' = [srv EXCEPT !.lock = p, !.cancel = h, !.wg = @ + 1]
               /\ cancelled' = [cancelled EXCEPT ![h] = FALSE]
               /\ stack' = [stack EXCEPT
                     ![p] = Call(p, [Top(p) EXCEPT !.pc = "listened"],
                                 Plain("Listen", "lock")),
                     ![h] = <<Frame("sendHeartbeat", "select", NoName, NoConn,
                                    "hb", AliveMsg)>>]
               /\ UNCHANGED result
    /\ UNCHANGED <<senders, smlock, connVars, rv, ops, rcv>>
    /\ UNCHANGED chain

\* Server.Start, `return srv.r.Listen()` and the deferred Unlock
Srv_Start_Unlock(p) ==
    /\ Running(p, "Start", "listened")
    /\ srv' = [srv EXCEPT !.lock = NoProc]
    /\ Return(p, Top(p).ret)
    /\ UNCHANGED <<senders, smlock, connVars, rv, cancelled, ops, rcv>>
    /\ UNCHANGED chain

\* Server.Stop, srv.lock.Lock(), the cancel of the heartbeat and the call of
\* srv.r.Close()
Srv_Stop_Lock(p) ==
    /\ Running(p, "Stop", "lock")
    /\ srv.lock = NoProc
    /\ srv' = [srv EXCEPT !.lock = p, !.cancel = NoProc]
    /\ cancelled' = IF srv.cancel # NoProc
                    THEN [cancelled EXCEPT ![srv.cancel] = TRUE]
                    ELSE cancelled
    /\ stack' = [stack EXCEPT ![p] =
           Call(p, [Top(p) EXCEPT !.pc = "senders"], Plain("RClose", "lock"))]
    /\ UNCHANGED <<senders, smlock, connVars, rv, result, ops, rcv>>
    /\ UNCHANGED chain

\* Server.Stop, the call of srv.senders.Close()
Srv_Stop_Senders(p) ==
    /\ Running(p, "Stop", "senders")
    /\ stack' = [stack EXCEPT ![p] =
           Call(p, [Top(p) EXCEPT !.pc = "wait", !.err = Top(p).ret],
                Plain("CloseAll", "lock"))]
    /\ UNCHANGED <<senders, smlock, connVars, rv, cancelled, result, ops, srv, rcv>>
    /\ UNCHANGED chain

\* a Stop that returns without waiting for the heartbeat goroutine
Srv_Stop_Wait_NoWait(p) ==
    /\ Running(p, "Stop", "wait")
    /\ srv' = [srv EXCEPT !.lock = NoProc]
    /\ Return(p, Join(Top(p).err, Top(p).ret))
    /\ UNCHANGED <<senders, smlock, connVars, rv, cancelled, ops, rcv>>
    /\ UNCHANGED chain

\* Server.Stop, srv.wg.Wait(), `return err` and the deferred Unlock
Srv_Stop_Wait(p) ==
    /\ Running(p, "Stop", "wait")
    /\ srv.wg = 0
    /\ srv' = [srv EXCEPT !.lock = NoProc]
    /\ Return(p, Join(Top(p).err, Top(p).ret))
    /\ UNCHANGED <<senders, smlock, connVars, rv, cancelled, ops, rcv>>
    /\ UNCHANGED chain

\* Server.sendHeartbeat, `case <-time.After(srv.heartbeatInterval)`: the
\* ServiceAlive message goes to srv.txObservers.ObserveWRP (counted in
\* srv.ticks) and then to srv.senders.ProcessWRP; the select takes this case
\* also when the context is done and the timer has fired
HB_Tick(h) ==
    /\ h \in Routines
    /\ Running(h, "sendHeartbeat", "select")
    /\ ops < MaxOps
    /\ ops' = ops + 1
    /\ srv' = [srv EXCEPT !.ticks = @ + 1]
    /\ stack' = [stack EXCEPT ![h] =
           Call(h, Top(h), Frame("ProcessWRP", "start", NoName, NoConn, "hb", AliveMsg))]
    /\ UNCHANGED <<senders, smlock, connVars, rv, cancelled, result, rcv>>
    /\ UNCHANGED chain

\* Server.sendHeartbeat, `case <-ctx.Done(): return` and the deferred
\* srv.wg.Done()
HB_Exit(h) ==
    /\ h \in Routines
    /\ Running(h, "sendHeartbeat", "select")
    /\ cancelled[h]
    /\ srv' = [srv EXCEPT !.wg = @ - 1]
    /\ stack' = [stack EXCEPT ![h] = <<>>]
    /\ UNCHANGED <<senders, smlock, connVars, rv, cancelled, result, ops, rcv>>
    /\ UNCHANGED chain

\* ---------------------------------------------------------------------------
\* the callers
\* ---------------------------------------------------------------------------

\* a user starts a call with a fresh context
Begin(p, f) ==
    /\ p \in Users
    /\ Idle(p)
    /\ ops < MaxOps
    /\ ops' = ops + 1
    /\ stack' = [stack EXCEPT ![p] = <<f>>]
    /\ cancelled' = [cancelled EXCEPT ![p] = FALSE]
    /\ calls' = IF f.op = "Send" THEN [calls EXCEPT ![f.conn] = @ + 1] ELSE calls
    /\ UNCHANGED <<senders, smlock, nextConn, owner, sock, slock, opens, closes,
                   notif, wire, rv, result, srv, rcv>>
    /\ UNCHANGED chain

\* sm.Upsert(name, opts)
StartUpsert(p, name) ==
    /\ name \in Names
    /\ Begin(p, Frame("upsert", "new", name, NoConn, "bg", AuthMsg))

\* sm.Remove(name)
StartRemove(p, name) ==
    /\ name \in Names
    /\ Begin(p, Frame("Remove", "lock", name, NoConn, "bg", AuthMsg))

\* sm.Close()
StartCloseAll(p) ==
    Begin(p, Frame("CloseAll", "lock", NoName, NoConn, "bg", AuthMsg))

\* sm.ProcessWRP(ctx, msg)
StartDispatch(p, msg) ==
    /\ msg \in UserMsgs
    /\ Begin(p, Frame("ProcessWRP", "start", NoName, NoConn, "user", msg))

\* s.Dial(), s.Close() and s.ProcessWRP(ctx, msg) on a Sender the user built
StartDial(p, c) ==
    /\ c \in Conns /\ c < nextConn /\ owner[c] = NoName
    /\ Begin(p, Frame("Dial", "lock", NoName, c, "bg", AuthMsg))

StartClose(p, c) ==
    /\ c \in Conns /\ c < nextConn /\ owner[c] = NoName
    /\ Begin(p, Frame("Close", "lock", NoName, c, "bg", AuthMsg))

StartSend(p, c) ==
    /\ c \in Conns /\ c < nextConn /\ owner[c] = NoName
    /\ Begin(p, Frame("Send", "lock", NoName, c, "user", Msg("event", NoDest)))

\* srv.Start() and srv.Stop()
StartStart(p) == Begin(p, Plain("Start", "lock"))

StartStop(p) == Begin(p, Plain("Stop", "lock"))

\* r.Listen() and r.Close() on a Receiver the user built
StartListen(p) == Begin(p, Plain("Listen", "lock"))

StartRClose(p) == Begin(p, Plain("RClose", "lock"))

\* the steps of the Sender's methods and of its send goroutines
SenderStep(sendOutcomes) ==
    \/ \E p \in Procs, outcome \in {ErrNil, ErrDial} : SenderDial(p, outcome)
    \/ \E p \in Procs : SenderClose_Lock(p)
    \/ \E p \in Procs : SenderClose_Visit(p)
    \/ \E p \in Procs : Send_Lock(p)
    \/ \E p \in Procs, byCtx \in BOOLEAN : Send_Wait(p, byCtx)
    \/ \E w \in Workers, outcome \in sendOutcomes : GoSend_Send(w, outcome)
    \/ \E w \in Workers : GoSend_Visit(w)
    \/ \E w \in Workers : GoSend_Deliver(w)
    \/ \E w \in Workers : GoSend_Report(w)

\* the steps of the senderMap's methods
TableStep ==
    \/ \E p \in Procs, outcome \in FactoryOutcomes : Upsert_New(p, outcome)
    \/ \E p \in Procs : Upsert_Dialed(p)
    \/ \E p \in Procs : Upsert_Lock(p)
    \/ \E p \in Procs : Upsert_Install(p)
    \/ \E p \in Procs : Upsert_Auth(p)
    \/ \E p \in Procs : Remove_Lock(p)
    \/ \E p \in Procs : Remove_Delete(p)
    \/ \E p \in Procs : Remove_Unlock(p)
    \/ \E p \in Procs : CloseAll_Lock(p)
    \/ \E p \in Procs, c \in Conns : CloseAll_Loop(p, c)
    \/ \E p \in Procs : CloseAll_Clear(p)

BroadcastStep ==
    \/ \E p \in Procs : Dispatch_Snapshot(p)
    \/ \E p \in Procs, c \in Conns : Dispatch_Each(p, c)
    \/ \E p \in Procs : Dispatch_EachDone(p)

UnicastStep ==
    \/ \E p \in Procs : Dispatch_BadLocator(p)
    \/ \E p \in Procs : Dispatch_Lookup(p)

MapStep == TableStep \/ BroadcastStep \/ UnicastStep

\* ---- stopping.Processors and the message type filters ----
\* wrp.MessageType values the filters compare with
Invalid0MessageType == 0
Invalid1MessageType == 1
AuthorizationMessageType == 2
ServiceRegistrationMessageType == 9
ServiceAliveMessageType == 10
SimpleEventMessageType == 4
LastMessageType == 12

\* the message types and the chain lengths explored
TypeSlack == 1
MaxChain == 3
TypeNumbers == (0 - TypeSlack)..(LastMessageType + TypeSlack)

ErrUnsupported == {"ErrUnsupported"}
ErrInvalidType == {"invalid message type"}
ErrLocalDisallowed == {"ErrLocalDisallowed"}
ErrHandler == {"handler error"}

\* errors.Is(err, wrp.ErrNotHandled)
IsNotHandled(err) == ErrNotHandled \subseteq err

ErrorOnUnsupportedMsgTypes_AcceptsLast(t) ==
    IF \/ t > LastMessageType
       \/ t < 0
       \/ t = Invalid0MessageType
       \/ t = Invalid1MessageType
    THEN Join(ErrInvalidType, ErrUnsupported)
    ELSE ErrNotHandled

\* filters.ErrorOnUnsupportedMsgTypes()
ErrorOnUnsupportedMsgTypes(t) ==
    IF \/ t >= LastMessageType
       \/ t < 0
       \/ t = Invalid0MessageType
       \/ t = Invalid1MessageType
    THEN Join(ErrInvalidType, ErrUnsupported)
    ELSE ErrNotHandled

ErrorOnLocalMsgTypes_AllowsAlive(t) ==
    IF t \in {AuthorizationMessageType, ServiceRegistrationMessageType}
    THEN ErrLocalDisallowed
    ELSE ErrNotHandled

\* filters.ErrorOnLocalMsgTypes()
ErrorOnLocalMsgTypes(t) ==
    IF t \in {AuthorizationMessageType, ServiceRegistrationMessageType,
              ServiceAliveMessageType}
    THEN ErrLocalDisallowed
    ELSE ErrNotHandled

\* The Processors a chain is built from: a nil entry, the two filters, and
\* handlers that return ErrNotHandled, nil, an error, and an error that wraps
\* ErrNotHandled.
HandlerKinds == {"nil", "unsupported", "local", "notHandled", "handled",
                 "fails", "wrapsNotHandled"}

\* The entries of the Server's two chains: the rx and tx observers, the
\* registration handler, the egress fan-out and the senderMap.
PipelineKinds == {"rxObservers", "handleRegisterMsg", "egressWRP",
                  "txObservers", "senders"}

\* wrp.ObserverAsProcessor(o): observes the message and does not handle it
ObserverAsProcessor == ErrNotHandled

\* srv.handleRegisterMsg(ctx, msg) by the message type: upserted is what the
\* handler returns for a registration (errInvalidMsg, or what Upsert returns)
handleRegisterMsg(t, upserted) ==
    IF t # ServiceRegistrationMessageType THEN ErrNotHandled ELSE upserted

egressWRP_ReturnsModifier(modified) == modified

\* srv.egressWRP(ctx, msg): modified is what the egress modifiers return
egressWRP(modified) == ErrNil

\* what the surroundings of a call decide: the outcome of a registration, what
\* the egress modifiers return, what senderMap.ProcessWRP returns
NoEnv == [reg |-> ErrNil, egress |-> ErrNil, route |-> ErrNil]

\* proc.ProcessWRP(ctx, msg) of a non-nil entry
Handle(kind, t) ==
    CASE kind = "unsupported" -> ErrorOnUnsupportedMsgTypes(t)
      [] kind = "local" -> ErrorOnLocalMsgTypes(t)
      [] kind \in {"rxObservers", "txObservers"} -> ObserverAsProcessor
      [] kind = "handleRegisterMsg" -> handleRegisterMsg(t, chain.env.reg)
      [] kind = "egressWRP" -> egressWRP(chain.env.egress)
      [] kind = "senders" -> chain.env.route
      [] kind = "notHandled" -> ErrNotHandled
      [] kind = "handled" -> ErrNil
      [] kind = "fails" -> ErrHandler
      [] kind = "wrapsNotHandled" -> Join(ErrHandler, ErrNotHandled)

Chains == UNION {[1..n -> HandlerKinds] : n \in 0..MaxChain}

\* One call of Processors.ProcessWRP: the slice p, msg.Type, the loop position,
\* ctx.Err() != nil, and what the call did: whether ctx was cancelled at the
\* call, the entry that ran when it was cancelled, the entries invoked, what
\* they returned, and what the call returned.
NewChain(procs, t, cancelledAtCall) ==
    [procs |-> procs, type |-> t, i |-> 1, pc |-> "check",
     done |-> cancelledAtCall, pre |-> cancelledAtCall, during |-> 0,
     invoked |-> <<>>, rets |-> <<>>, ret |-> NoValue, env |-> NoEnv]

NoChain == [NewChain(<<>>, Invalid0MessageType, FALSE) EXCEPT !.pc = "idle"]

routerVars == <<senders, smlock, nextConn, owner, sock, slock, opens, closes,
                notif, calls, wire, stack, rv, cancelled, result, ops, srv, rcv>>

Chain_Check_NoCtxCheck ==
    /\ chain.pc = "check"
    /\ chain' =
         IF chain.i > Len(chain.procs)
         THEN [chain EXCEPT !.pc = "done", !.ret = ErrNotHandled]
         ELSE IF chain.procs[chain.i] = "nil"
         THEN [chain EXCEPT !.i = @ + 1]
         ELSE [chain EXCEPT !.pc = "run", !.invoked = Append(@, chain.i)]
    /\ UNCHANGED routerVars

\* The head of one iteration of the loop: the end of the range, the ctx.Err()
\* check, the nil check, and the call of the entry.
Chain_Check ==
    /\ chain.pc = "check"
    /\ chain' =
         IF chain.i > Len(chain.procs)
         THEN [chain EXCEPT !.pc = "done", !.ret = ErrNotHandled]
         ELSE IF chain.done
         THEN [chain EXCEPT !.pc = "done", !.ret = ErrCanceled]
         ELSE IF chain.procs[chain.i] = "nil"
         THEN [chain EXCEPT !.i = @ + 1]
         ELSE [chain EXCEPT !.pc = "run", !.invoked = Append(@, chain.i)]
    /\ UNCHANGED routerVars

Chain_Return_StopsAtFirst ==
    /\ chain.pc = "run"
    /\ LET err == Handle(chain.procs[chain.i], chain.type) IN
         chain' = [chain EXCEPT !.pc = "done", !.ret = err,
                                !.rets = Append(@, err)]
    /\ UNCHANGED routerVars

\* The entry returns: the loop continues on ErrNotHandled and returns
\* anything else.
Chain_Return ==
    /\ chain.pc = "run"
    /\ LET err == Handle(chain.procs[chain.i], chain.type) IN
         chain' = IF IsNotHandled(err)
                  THEN [chain EXCEPT !.pc = "check", !.i = @ + 1,
                                     !.rets = Append(@, err)]
                  ELSE [chain EXCEPT !.pc = "done", !.ret = err,
                                     !.rets = Append(@, err)]
    /\ UNCHANGED routerVars

\* The caller's context is cancelled while the call is in progress.
Chain_Cancel ==
    /\ chain.pc \in {"check", "run"}
    /\ ~chain.done
    /\ chain' = [chain EXCEPT !.done = TRUE,
                              !.during = IF chain.pc = "run" THEN chain.i ELSE 0]
    /\ UNCHANGED routerVars

InitCommon ==
    /\ senders = [n \in Names |-> NoConn]
    /\ smlock = NoProc
    /\ sock = [c \in Conns |-> FALSE]
    /\ slock = [c \in Conns |-> FALSE]
    /\ opens = [c \in Conns |-> 0]
    /\ closes = [c \in Conns |-> 0]
    /\ notif = [c \in Conns |-> <<>>]
    /\ calls = [c \in Conns |-> 0]
    /\ wire = [c \in Conns |-> <<>>]
    /\ owner = [c \in Conns |-> NoName]
    /\ stack = [p \in Procs |-> <<>>]
    /\ rv = [w \in Workers |-> NoValue]
    /\ cancelled = [p \in Users \cup Routines |-> FALSE]
    /\ srv = [lock |-> NoProc, cancel |-> NoProc, wg |-> 0, ticks |-> 0, observed |-> 0]
    /\ rcv = [lock |-> NoProc, cancel |-> NoProc, wg |-> 0, notif |-> <<>>,
              opened |-> 0, nrx |-> 0, seen |-> <<>>]
    /\ result = [p \in Users \cup Routines |-> NoResult]
    /\ ops = 0

\* ---- the senderMap with its users: an empty table ----
Init == InitCommon /\ nextConn = 1 /\ chain = NoChain

Next ==
    \/ \E p \in Users, name \in Names : StartUpsert(p, name)
    \/ \E p \in Users, name \in Names : StartRemove(p, name)
    \/ \E p \in Users : StartCloseAll(p)
    \/ \E p \in Users, msg \in UserMsgs : StartDispatch(p, msg)
    \/ MapStep
    \/ SenderStep({ErrNil, ErrSend})

Spec == Init /\ [][Next]_vars

\* ---- one Sender with its users: sender.New(WithURL(url), WithCloseListener(f)) ----
InitSender ==
    /\ InitCommon
    /\ nextConn = 2
    /\ chain = NoChain

NextSender ==
    \/ \E p \in Users : StartDial(p, 1)
    \/ \E p \in Users : StartClose(p, 1)
    \/ \E p \in Users : StartSend(p, 1)
    \/ \E p \in Users : CancelCtx(p)
    \/ SenderStep(SendOutcomes)

SpecSender == InitSender /\ [][NextSender]_vars

\* a chain that shows the message to the tx observers before the filters
IngressChain_HooksFirst == <<"txObservers", "unsupported", "local", "senders">>

\* createIngressChain: the chain Server.ProcessWRP runs
IngressChain == <<"unsupported", "local", "txObservers", "senders">>

\* srv.ProcessWRP(ctx, msg)
StartProcessWRP(p, msg) ==
    /\ msg \in UserMsgs
    /\ Begin(p, Frame("Server.ProcessWRP", "chain", NoName, NoConn, "user", msg))

\* Server.ProcessWRP, `return srv.ingressChain.ProcessWRP(ctx, msg)`: one
\* iteration of the loop of stopping.Processors over the chain of
\* createIngressChain.  Top(p).seq counts the entries that returned
\* ErrNotHandled.  The iteration returns the context's error when the context
\* is done, and else calls the entry: a filter, the tx observers (counted in
\* srv.observed), or srv.senders.ProcessWRP, the last entry, whose return
\* value the chain returns.
Srv_ProcessWRP(p) ==
    /\ Running(p, "Server.ProcessWRP", "chain")
    /\ LET f == Top(p)
           kind == IngressChain[f.seq + 1]
           t == CASE f.msg.type = "alive" -> ServiceAliveMessageType
                  [] f.msg.type = "auth" -> AuthorizationMessageType
                  [] f.msg.type = "register" -> ServiceRegistrationMessageType
                  [] OTHER -> SimpleEventMessageType IN
       IF CtxDone(f.ctx, p)
       THEN /\ Return(p, ErrCanceled)
            /\ UNCHANGED srv
       ELSE IF kind = "senders"
       THEN /\ stack' = [stack EXCEPT ![p] =
                   Call(p, [f EXCEPT !.pc = "ret"],
                        Frame("ProcessWRP", "start", NoName, NoConn, f.ctx, f.msg))]
            /\ UNCHANGED <<result, srv>>
       ELSE /\ srv' = IF kind = "txObservers"
                      THEN [srv EXCEPT !.observed = @ + 1]
                      ELSE srv
            /\ IF IsNotHandled(Handle(kind, t))
               THEN /\ stack' = [stack EXCEPT ![p] = SetTop(p, [f EXCEPT !.seq = @ + 1])]
                    /\ UNCHANGED result
               ELSE Return(p, Handle(kind, t))
    /\ UNCHANGED <<senders, smlock, connVars, rv, cancelled, ops, rcv>>
    /\ UNCHANGED chain

\* ---- the Server with the application that starts and stops it and sends
\* messages through it, the services that register with it and its
\* heartbeat ----
ServerStep ==
    \/ \E p \in Procs, outcome \in ListenOutcomes : Rcv_Listen(p, outcome)
    \/ \E p \in Procs : Rcv_Close_Lock(p)
    \/ \E p \in Procs : Rcv_Close_Wait(p)
    \/ \E r \in Routines, out \in RecvOutcomes(RxMsgs) \cup {ClosedOutcome} :
          Rx_Recv(r, out, RxMsgs)
    \/ \E r \in Routines : Rx_Frame(r, "handleRegisterMsg")
    \/ \E r \in Routines : Rx_Continue(r)
    \/ \E r \in Routines : HandleRegister(r)
    \/ \E r \in Routines, byCtx \in BOOLEAN : Rx_Stop(r, byCtx)
    \/ \E r \in Routines : Rx_Notify(r)
    \/ \E p \in Users : Srv_Start(p)
    \/ \E p \in Users : Srv_Start_Unlock(p)
    \/ \E p \in Users : Srv_Stop_Lock(p)
    \/ \E p \in Users : Srv_Stop_Senders(p)
    \/ \E p \in Users : Srv_Stop_Wait(p)
    \/ \E h \in Routines : HB_Tick(h)
    \/ \E h \in Routines : HB_Exit(h)
    \/ \E p \in Users : Srv_ProcessWRP(p)

NextServer ==
    \/ \E p \in Users : StartStart(p)
    \/ \E p \in Users : StartStop(p)
    \/ \E p \in Users, msg \in UserMsgs : StartProcessWRP(p, msg)
    \/ \E p \in Users : CancelCtx(p)
    \/ ServerStep
    \/ TableStep
    \/ BroadcastStep
    \/ UnicastStep
    \/ SenderStep({ErrNil, ErrSend})

SpecServer == Init /\ [][NextServer]_vars

\* ---- the Server after srv.Start() has returned nil: the heartbeat goroutine
\* waits in its select and the receive loop waits for its first frame ----
InitBeat ==
    /\ senders = [n \in Names |-> NoConn]
    /\ smlock = NoProc
    /\ nextConn = 1
    /\ owner = [c \in Conns |-> NoName]
    /\ sock = [c \in Conns |-> FALSE]
    /\ slock = [c \in Conns |-> FALSE]
    /\ opens = [c \in Conns |-> 0]
    /\ closes = [c \in Conns |-> 0]
    /\ notif = [c \in Conns |-> <<>>]
    /\ calls = [c \in Conns |-> 0]
    /\ wire = [c \in Conns |-> <<>>]
    /\ stack = [p \in Procs |->
                  IF p = NumUsers + NumWorkers + 1
                  THEN <<Frame("sendHeartbeat", "select", NoName, NoConn, "hb", AliveMsg)>>
                  ELSE IF p = NumUsers + NumWorkers + 2
                  THEN <<LoopFrame>>
                  ELSE <<>>]
    /\ rv = [w \in Workers |-> NoValue]
    /\ cancelled = [p \in Users \cup Routines |-> FALSE]
    /\ srv = [lock |-> NoProc, cancel |-> NumUsers + NumWorkers + 1, wg |-> 1,
              ticks |-> 0, observed |-> 0]
    /\ rcv = [lock |-> NoProc, cancel |-> NumUsers + NumWorkers + 2, wg |-> 2,
              notif |-> <<>>, opened |-> 1, nrx |-> 0, seen |-> <<>>]
    /\ result = [p \in Users \cup Routines |->
                   IF p = 1 THEN [NoResult EXCEPT !.op = "Start", !.ret = ErrNil]
                   ELSE NoResult]
    /\ ops = 0
    /\ chain = NoChain

\* the application stops the Server and starts it again, one service sends
\* its registration, and the heartbeat ticks
NextBeat ==
    \/ StartStart(1)
    \/ StartStop(1)
    \/ \E p \in Procs : Rcv_Listen(p, ErrNil)
    \/ \E p \in Procs : Rcv_Close_Lock(p)
    \/ \E p \in Procs : Rcv_Close_Wait(p)
    \/ \E r \in Routines,
          out \in {[Pending EXCEPT !.st = "bytes",
                                   !.msg = RegMsg("register", "A", "tcp://service")],
                   ClosedOutcome} :
          Rx_Recv(r, out, {RegMsg("register", "A", "tcp://service")})
    \/ \E r \in Routines : Rx_Frame(r, "handleRegisterMsg")
    \/ \E r \in Routines : HandleRegister(r)
    \/ \E r \in Routines : Rx_Stop(r, TRUE)
    \/ \E r \in Routines : Rx_Notify(r)
    \/ \E p \in Users : Srv_Start(p)
    \/ \E p \in Users : Srv_Start_Unlock(p)
    \/ \E p \in Users : Srv_Stop_Lock(p)
    \/ \E p \in Users : Srv_Stop_Senders(p)
    \/ \E p \in Users : Srv_Stop_Wait(p)
    \/ \E h \in Routines : HB_Tick(h)
    \/ \E h \in Routines : HB_Exit(h)
    \/ TableStep
    \/ BroadcastStep
    \/ SenderStep({ErrNil, ErrSend})

SpecBeat == InitBeat /\ [][NextBeat]_vars

\* ---- the senderMap with users that register services and send messages,
\* and never call Remove or Close: every user registers services, all but
\* the last one also send; every goroutine that can take a step eventually
\* takes one ----
\* the steps of goroutine p
ProcStep(p) ==
    \/ \E outcome \in {ErrNil, ErrDial} : SenderDial(p, outcome)
    \/ SenderClose_Lock(p)
    \/ SenderClose_Visit(p)
    \/ Send_Lock(p)
    \/ \E byCtx \in BOOLEAN : Send_Wait(p, byCtx)
    \/ \E outcome \in {ErrNil, ErrSend} : GoSend_Send(p, outcome)
    \/ GoSend_Visit(p)
    \/ GoSend_Deliver(p)
    \/ GoSend_Report(p)
    \/ \E outcome \in FactoryOutcomes : Upsert_New(p, outcome)
    \/ Upsert_Dialed(p)
    \/ Upsert_Lock(p)
    \/ Upsert_Install(p)
    \/ Upsert_Auth(p)
    \/ Remove_Lock(p)
    \/ Remove_Delete(p)
    \/ Remove_Unlock(p)
    \/ Dispatch_Snapshot(p)
    \/ \E c \in Conns : Dispatch_Each(p, c)
    \/ Dispatch_EachDone(p)
    \/ Dispatch_BadLocator(p)
    \/ Dispatch_Lookup(p)

NextPrune ==
    \/ \E p \in Users, name \in Names : StartUpsert(p, name)
    \/ \E p \in 1 .. (NumUsers - 1), msg \in UserMsgs : StartDispatch(p, msg)
    \/ \E p \in Procs : ProcStep(p)

SpecPrune ==
    /\ Init
    /\ [][NextPrune]_vars
    /\ \A p \in Users \cup Workers : WF_vars(ProcStep(p))

\* ---- the senderMap after sm.Upsert("A", opts) has registered a service,
\* with users that register services and a user that sends messages under
\* contexts they may cancel ----
InitSwap ==
    /\ senders = [n \in Names |-> IF n = "A" THEN 1 ELSE NoConn]
    /\ smlock = NoProc
    /\ nextConn = 2
    /\ owner = [c \in Conns |-> IF c = 1 THEN "A" ELSE NoName]
    /\ sock = [c \in Conns |-> c = 1]
    /\ slock = [c \in Conns |-> FALSE]
    /\ opens = [c \in Conns |-> IF c = 1 THEN 1 ELSE 0]
    /\ closes = [c \in Conns |-> 0]
    /\ notif = [c \in Conns |-> <<>>]
    /\ calls = [c \in Conns |-> IF c = 1 THEN 1 ELSE 0]
    /\ wire = [c \in Conns |-> IF c = 1 THEN <<"auth">> ELSE <<>>]
    /\ stack = [p \in Procs |-> <<>>]
    /\ rv = [w \in Workers |-> NoValue]
    /\ cancelled = [p \in Users \cup Routines |-> FALSE]
    /\ srv = [lock |-> NoProc, cancel |-> NoProc, wg |-> 0, ticks |-> 0, observed |-> 0]
    /\ rcv = [lock |-> NoProc, cancel |-> NoProc, wg |-> 0, notif |-> <<>>,
              opened |-> 0, nrx |-> 0, seen |-> <<>>]
    /\ result = [p \in Users \cup Routines |-> NoResult]
    /\ ops = 0
    /\ chain = NoChain

NextSwap ==
    \/ \E p \in 1 .. (NumUsers - 1), name \in Names : StartUpsert(p, name)
    \/ \E msg \in UserMsgs : StartDispatch(NumUsers, msg)
    \/ \E p \in Users : CancelCtx(p)
    \/ \E p \in Procs : ProcStep(p)

SpecSwap == InitSwap /\ [][NextSwap]_vars

\* ---- one Receiver with its users and a recorder of the messages:
\* receiver.New(WithURL(url), WithModifyWRP(recorder), WithCloseListener(f)) ----
ReceiverStep ==
    \/ \E p \in Procs, outcome \in ListenOutcomes : Rcv_Listen(p, outcome)
    \/ \E p \in Procs : Rcv_Close_Lock(p)
    \/ \E p \in Procs : Rcv_Close_Wait(p)
    \/ \E r \in Routines, out \in RecvOutcomes(EventMsgs) \cup {ClosedOutcome} :
          Rx_Recv(r, out, EventMsgs)
    \/ \E r \in Routines : Rx_Frame(r, "observe")
    \/ \E r \in Routines : Rx_Continue(r)
    \/ \E r \in Routines, byCtx \in BOOLEAN : Rx_Stop(r, byCtx)
    \/ \E r \in Routines : Rx_Notify(r)
    \/ \E d \in Routines : Rx_Observe(d)

NextReceiver ==
    \/ \E p \in Users : StartListen(p)
    \/ \E p \in Users : StartRClose(p)
    \/ ReceiverStep

SpecReceiver == Init /\ [][NextReceiver]_vars

\* ---- one call of Processors.ProcessWRP, for every chain of up to MaxChain
\* entries, every message type explored, and a context that is or is not
\* cancelled at the call ----
InitChain ==
    /\ InitCommon
    /\ nextConn = 1
    /\ chain \in {NewChain(procs, t, c) :
                     procs \in Chains, t \in TypeNumbers, c \in BOOLEAN}

NextChain ==
    \/ Chain_Check
    \/ Chain_Return
    \/ Chain_Cancel

SpecChain == InitChain /\ [][NextChain]_vars

\* ---- one call of each of the Server's chains, for every message type
\* explored, a context that is or is not cancelled at the call, and every
\* outcome of the registration, of the egress modifiers and of the senderMap ----
\* createReceiver: the chain the Receiver runs on a decoded message
ReceiveChain ==
    <<"rxObservers", "unsupported", "handleRegisterMsg", "local", "egressWRP">>

\* what handleRegisterMsg returns for a registration
RegOutcomes == {ErrNil, ErrInvalidMsg, ErrFactory, ErrDial}
\* what an egress modifier returns
ModifierOutcomes == {ErrNil, ErrHandler, ErrNotHandled}
\* what senderMap.ProcessWRP returns: nil, ErrNotHandled without an entry,
\* the locator's error, or what the Sender's ProcessWRP returned
RouteOutcomes == {ErrNil, ErrNotHandled, ErrorInvalidLocator, ErrConnClosed,
                  ErrCanceled, ErrSend, ErrSendTimeout}

ReceiveEnvs ==
    {[reg |-> r, egress |-> m, route |-> ErrNil] :
        r \in RegOutcomes, m \in ModifierOutcomes}
IngressEnvs ==
    {[reg |-> ErrNil, egress |-> ErrNil, route |-> r] : r \in RouteOutcomes}

InitPipeline ==
    /\ InitCommon
    /\ nextConn = 1
    /\ \/ chain \in {[NewChain(ReceiveChain, t, c) EXCEPT !.env = v] :
                        t \in TypeNumbers, c \in BOOLEAN, v \in ReceiveEnvs}
       \/ chain \in {[NewChain(IngressChain, t, c) EXCEPT !.env = v] :
                        t \in TypeNumbers, c \in BOOLEAN, v \in IngressEnvs}

SpecPipeline == InitPipeline /\ [][NextChain]_vars

\* ---------------------------------------------------------------------------
\* properties
\* ---------------------------------------------------------------------------

\* the frames of p
Frames(p) == {stack[p][i] : i \in 1..Depth(p)}

\* p runs the close listeners of Sender c: a frame below the top of its stack
\* is the Sender.Close or the send goroutine that called visitOnClose
InListenerOf(p, c) ==
    \E i \in 1..(Depth(p) - 1) :
        /\ stack[p][i].conn = c
        /\ \/ stack[p][i].op = "Close" /\ stack[p][i].pc = "ret"
           \/ stack[p][i].op = "goSend" /\ stack[p][i].pc = "deliver"

\* p waits for the write lock of the table while a call further down its own
\* stack holds it: sync.RWMutex is not reentrant, so p never runs again
SelfDeadlocked(p) ==
    /\ Depth(p) > 0
    /\ Top(p).pc = "lock"
    /\ Top(p).op \in {"Remove", "upsert", "CloseAll"}
    /\ smlock = p

\* the step is one of process p
StepOf(p) == stack'[p] # stack[p] /\ Depth(p) > 0

\* C1: a close notification of an older Sender never evicts a newer one: no
\* step a process takes inside the close listener of Sender c1 closes, or
\* takes out of the table, another open Sender c2 that the table holds under
\* c1's name.
C1_StaleCloseKeepsNewer ==
    [][\A p \in Procs, c1 \in Conns, c2 \in Conns :
          (/\ c1 # c2
           /\ InListenerOf(p, c1)
           /\ StepOf(p)
           /\ owner[c1] # NoName
           /\ senders[owner[c1]] = c2
           /\ sock[c2])
          => (senders'[owner[c1]] = c2 /\ sock'[c2])]_vars

\* C2: an upsert over a name that has an entry completes (it never waits for
\* the table lock it holds itself), closes the old Sender exactly once, and
\* once it has installed the new Sender the old one is closed.
C2_UpsertReplacesExisting ==
    \A p \in Procs : \A f \in Frames(p) :
        (f.op = "upsert" /\ f.existing # NoConn) =>
            /\ ~SelfDeadlocked(p)
            /\ closes[f.existing] <= 1
            /\ (f.pc \in {"auth", "ret"} =>
                   ~sock[f.existing] /\ closes[f.existing] = 1)

\* the Senders built for name that are open
Live(name) == {c \in Conns : owner[c] = name /\ sock[c]}

\* C3 as stated: at most one Sender built for a name is open at any instant.
C3_AtMostOneLivePerName ==
    \A name \in Names : Cardinality(Live(name)) <= 1

\* an upsert holds Sender c dialed and not yet installed
BeingInstalled(c) ==
    \E p \in Procs : \E f \in Frames(p) :
        f.op = "upsert" /\ f.conn = c /\ f.pc \in {"dialed", "lock", "install"}

\* C3 as amended: an open Sender built for a name is the table's entry for
\* that name, or one that a running upsert has dialed and not yet installed;
\* the entry an upsert replaced is closed before the new one is installed.
C3_LiveIsEntryOrBeingInstalled ==
    \A name \in Names : \A c \in Live(name) :
        senders[name] = c \/ BeingInstalled(c)

\* C3 witness: an upsert has replaced the entry of a name: the table holds
\* the new open Sender and the Sender it replaced is closed.
C3_Witness ==
    \E c1 \in Conns, c2 \in Conns :
        /\ c1 # c2
        /\ owner[c1] = "A" /\ owner[c2] = "A"
        /\ senders["A"] = c2 /\ sock[c2]
        /\ opens[c1] = 1 /\ ~sock[c1]
        /\ \E p \in Users : result[p].op = "upsert" /\ result[p].conn = c2

\* C4: Remove and Close of the table always return: the call never waits for
\* the table lock it holds itself, Remove returns with no entry for the name
\* and Close with an empty table.
C4_RemoveAndCloseReturn ==
    \A p \in Users :
        /\ (Depth(p) > 0 /\ stack[p][1].op \in {"Remove", "CloseAll"})
               => ~SelfDeadlocked(p)
        /\ (Depth(p) > 0 /\ stack[p][1].op = "Remove" /\ stack[p][1].pc = "delete"
               /\ Depth(p) = 1) => ~sock[stack[p][1].conn]

\* C5: Server.Stop on a started Server returns, whatever Senders are
\* registered: a Stop never waits, in the senders.Close() it calls, for the
\* table lock that this very call holds.
C5_StopReturns ==
    \A p \in Users :
        (Depth(p) > 0 /\ stack[p][1].op = "Stop") => ~SelfDeadlocked(p)

\* process p has returned from the call it was in, with val
Returned(p, val) == stack[p] = <<>> /\ result[p].ret = val

\* the elements of a sequence
Range(sq) == {sq[i] : i \in 1..Len(sq)}

\* C6: senderMap.ProcessWRP of a message that is not ServiceAlive returns the
\* invalid-locator error when the destination does not parse, returns
\* ErrNotHandled and calls no Sender when the table has no entry for the
\* locator's service, and otherwise calls ProcessWRP once on the Sender the
\* table holds under that service, on no other, and returns what that call
\* returned.
C6_UnicastResult ==
    \A p \in Users :
        (result[p].op = "ProcessWRP" /\ result[p].msg.type # "alive") =>
            LET r == result[p]
                loc == ParseLocator(r.msg.dest) IN
            /\ loc.err # ErrNil => (r.ret = ErrorInvalidLocator /\ r.called = <<>>)
            /\ (loc.err = ErrNil /\ r.called = <<>>) => r.ret = ErrNotHandled
            /\ r.called # <<>> =>
                   /\ Len(r.called) = 1
                   /\ owner[r.called[1]] = loc.Service
                   /\ r.ret = r.sent
                   /\ r.ret # ErrNotHandled

C6_UnicastLookup ==
    \A p \in Users :
        (/\ Running(p, "ProcessWRP", "start")
         /\ Top(p).msg.type # "alive"
         /\ StepOf(p))
        => LET loc == ParseLocator(Top(p).msg.dest)
               target == Lookup(loc.Service) IN
           /\ (loc.err = ErrNil /\ target = NoConn) =>
                  (Returned(p, ErrNotHandled)' /\ calls' = calls)
           /\ (loc.err = ErrNil /\ target # NoConn) =>
                  (/\ calls' = [calls EXCEPT ![target] = @ + 1]
                   /\ stack'[p][1].called = <<target>>)
           /\ loc.err # ErrNil => calls' = calls

\* C6: every unicast dispatch that returned has the result above, and every
\* lookup step calls the Sender the table holds, once, or none.
C6_UnicastDispatch == [](C6_UnicastResult) /\ [][C6_UnicastLookup]_vars

\* C6 witness: a dispatch to service A, with Senders for A and B in the table,
\* returned the error of the one send it made, on the Sender of A.
C6_Witness ==
    \E p \in Users :
        /\ result[p].op = "ProcessWRP" /\ result[p].msg.type = "event"
        /\ Len(result[p].called) = 1
        /\ result[p].ret = ErrSend
        /\ \E c \in Conns : owner[c] = "B" /\ opens[c] = 1 /\ calls[c] = 1

\* C7: senderMap.ProcessWRP of a ServiceAlive message calls ProcessWRP once on
\* every Sender that is in the table when the copy is made, whatever the
\* calls before it returned, and returns nil.
C7_BroadcastResult ==
    \A p \in Users :
        (result[p].op = "ProcessWRP" /\ result[p].msg.type = "alive") =>
            /\ result[p].ret = ErrNil
            /\ Range(result[p].called) = result[p].snap
            /\ Len(result[p].called) = Cardinality(result[p].snap)

C7_BroadcastSnapshot ==
    \A p \in Users :
        (/\ Running(p, "ProcessWRP", "start")
         /\ Top(p).msg.type = "alive"
         /\ StepOf(p))
        => stack'[p][1].snap = Registered /\ calls' = calls

\* C7: every broadcast that returned has called each Sender of its snapshot
\* once and returned nil, and the snapshot is the table at that moment.
C7_Broadcast == [](C7_BroadcastResult) /\ [][C7_BroadcastSnapshot]_vars

\* C7 witness: a broadcast to two Senders returned nil although a send failed.
C7_Witness ==
    \E p \in Users :
        /\ result[p].op = "ProcessWRP" /\ result[p].msg.type = "alive"
        /\ Cardinality(result[p].snap) = 2
        /\ result[p].ret = ErrNil
        /\ \E c \in result[p].snap : notif[c] = <<SendFailure(ErrSend)>>

\* p is in an upsert whose new Sender does not exist or was never dialed
InFailingUpsert(p) ==
    /\ Depth(p) > 0
    /\ stack[p][1].op = "upsert"
    /\ (stack[p][1].conn = NoConn \/ opens[stack[p][1].conn] = 0)

\* C8: an upsert whose Sender cannot be built or dialed returns the error and
\* leaves the table as it was: none of its steps changes an entry or closes a
\* Sender, and no Sender that was never dialed is ever in the table.
C8_FailedUpsertResult ==
    /\ \A p \in Users :
           result[p].op = "upsert" =>
               /\ result[p].conn = NoConn => result[p].ret = ErrFactory
               /\ (result[p].conn # NoConn /\ opens[result[p].conn] = 0)
                      => result[p].ret = ErrDial
    /\ \A name \in Names : senders[name] # NoConn => opens[senders[name]] = 1

C8_FailedUpsertStep ==
    \A p \in Users :
        (InFailingUpsert(p) /\ StepOf(p)) =>
            /\ senders' = senders
            /\ smlock' = smlock
            /\ closes' = closes
            /\ notif' = notif
            /\ \A c \in Conns : sock[c] => sock'[c]

\* C8: an upsert that failed to build or dial returned that error, and no
\* step of it changes the table or closes a Sender of the table.
C8_FailedUpsert == [](C8_FailedUpsertResult) /\ [][C8_FailedUpsertStep]_vars

\* C8 witness: an upsert of a name that has an open entry failed to dial, and
\* the entry is still there and open.
C8_Witness ==
    \E p \in Users, c \in Conns :
        /\ result[p].op = "upsert" /\ result[p].ret = ErrDial
        /\ result[p].name = "A"
        /\ senders["A"] = c /\ sock[c] /\ c # result[p].conn

\* the processes that have closed the socket of Sender c and have yet to call
\* its close listeners
PendingVisit(c) ==
    {p \in Procs : \E f \in Frames(p) :
        f.conn = c /\ f.pc = "visit" /\ f.op \in {"Close", "goSend"}}

\* C9: the close listeners of a Sender are called once for every time its
\* socket is closed, so at most once for a Sender that was dialed once: with
\* nil by Close, with an error that wraps ErrFailedToSend by a failed send,
\* and not at all by a Close that finds the socket closed.
C9_NotifiedOncePerClose ==
    \A c \in Conns :
        /\ Len(notif[c]) + Cardinality(PendingVisit(c)) = closes[c]
        /\ closes[c] <= opens[c]
        /\ opens[c] <= 1 => Len(notif[c]) <= 1

C9_NotifyReason ==
    \A c \in Conns :
        notif'[c] # notif[c] =>
            \E p \in Procs :
                /\ StepOf(p)
                /\ Top(p).conn = c
                /\ \/ Top(p).op = "Close" /\ notif'[c] = Append(notif[c], ErrNil)
                   \/ /\ Top(p).op = "goSend"
                      /\ Top(p).err # ErrNil
                      /\ notif'[c] = Append(notif[c], Join(Top(p).err, ErrFailedToSend))

\* C9: the listeners of a Sender are called once per close of its socket, and
\* each call carries the reason of that close.
C9_CloseNotifiesOnce == [](C9_NotifiedOncePerClose) /\ [][C9_NotifyReason]_vars

\* C9 witness: a Sender that was dialed once was closed by a failed send, a
\* Close after it has returned, and the listeners were called once, with the
\* send failure.
C9_Witness ==
    /\ opens[1] = 1
    /\ notif[1] = <<SendFailure(ErrSend)>>
    /\ \E p \in Users : result[p].op = "Close" /\ Idle(p)
    /\ \A w \in Workers : Idle(w)

\* C10 as stated: a Sender that was closed stays closed, whatever is called.
C10_ClosedStaysClosed ==
    [][\A c \in Conns : (closes[c] > 0 /\ ~sock[c]) => ~sock'[c]]_vars

\* C10 as amended: only a Dial opens the socket of a Sender, so a Sender that
\* was closed stays closed until it is dialed again; a send that finds the
\* socket closed returns ErrConnClosed at once: it starts no goroutine and
\* transmits nothing.
C10_OnlyDialOpens ==
    \A c \in Conns :
        (~sock[c] /\ sock'[c]) =>
            \E p \in Procs : Running(p, "Dial", "lock") /\ Top(p).conn = c /\ StepOf(p)

C10_SendOnClosed ==
    \A p \in Procs :
        (Running(p, "Send", "lock") /\ ~sock[Top(p).conn] /\ StepOf(p)) =>
            /\ Depth(p) = 1 => Returned(p, ErrConnClosed)'
            /\ Depth(p)' < Depth(p)
            /\ wire' = wire
            /\ \A w \in Workers : stack'[w] = stack[w]

\* C10 as amended: a closed Sender is opened by Dial only, and a send that
\* finds it closed returns ErrConnClosed at once and transmits nothing.
C10_ClosedUntilDialed == [][C10_OnlyDialOpens /\ C10_SendOnClosed]_vars

\* C10 witness: a send on a Sender that was dialed and closed returned
\* ErrConnClosed.
C10_Witness ==
    \E p \in Users :
        /\ result[p].op = "Send" /\ result[p].ret = ErrConnClosed
        /\ opens[1] = 1 /\ closes[1] = 1 /\ ~sock[1]

\* the step moves process p on: its top frame returns, calls, or goes to
\* another place
Moves(p) ==
    /\ Depth(p) > 0
    /\ \/ Len(stack'[p]) # Depth(p)
       \/ stack'[p][Depth(p)].pc # Top(p).pc

\* send goroutine w takes the step that ends its sock.Send, with error err
SendEnds(w, err) ==
    /\ Running(w, "goSend", "send")
    /\ Moves(w)
    /\ stack'[w] # <<>>
    /\ stack'[w][1].pc = (IF err = ErrNil THEN "report" ELSE "visit")
    /\ stack'[w][1].err = err

\* C11 as stated: a send that ends with the send deadline expired leaves the
\* socket of the Sender open and closes nothing.
C11_TimeoutNoSideEffect ==
    [][\A w \in Workers :
          SendEnds(w, ErrSendTimeout) =>
              sock'[Top(w).conn] /\ closes' = closes]_vars

\* C11 as amended: a send that ends with the send deadline expired is a
\* failed send like any other: the socket is closed and the Sender's lock
\* released, the close listeners are called once with an error that wraps both
\* the timeout and ErrFailedToSend, and the caller that still waits is handed
\* the timeout error, which it gets only after the listeners were called.
C11_TimeoutStep ==
    \A w \in Workers :
        /\ SendEnds(w, ErrSendTimeout) =>
              LET c == Top(w).conn IN
              /\ sock[c] /\ ~sock'[c]
              /\ closes'[c] = closes[c] + 1
              /\ ~slock'[c]
              /\ notif' = notif
        /\ (Running(w, "goSend", "visit") /\ Moves(w) /\ Top(w).err = ErrSendTimeout) =>
              notif'[Top(w).conn] =
                  Append(notif[Top(w).conn], Join(ErrSendTimeout, ErrFailedToSend))
        /\ (Running(w, "goSend", "deliver") /\ Moves(w) /\ Depth(w) = 1
                /\ Top(w).err = ErrSendTimeout /\ Top(w).w # NoProc) =>
              rv'[w] = ErrSendTimeout
        /\ (rv'[w] = ErrSendTimeout /\ rv[w] # ErrSendTimeout) =>
              Running(w, "goSend", "deliver") /\ Moves(w)

C11_TimeoutClosesSender == [][C11_TimeoutStep]_vars

\* C11 witness: a send returned the timeout error; the Sender is closed and
\* its listeners were called with the timeout wrapped as a failed send.
C11_Witness ==
    \E p \in Users :
        /\ Idle(p) /\ result[p].op = "Send" /\ result[p].ret = ErrSendTimeout
        /\ ~sock[1] /\ opens[1] = 1
        /\ notif[1] = <<Join(ErrSendTimeout, ErrFailedToSend)>>

\* C12: the error a caller whose context is not cancelled gets from a send
\* that failed in the transport wraps ErrFailedToSend, like the error the
\* close listeners get.
C12_FailedSendReturnsWrapped ==
    \A p \in Users :
        (/\ Idle(p) /\ ~cancelled[p]
         /\ result[p].op = "Send"
         /\ result[p].ret \cap (ErrSend \cup ErrSendTimeout) # {})
            => ErrFailedToSend \subseteq result[p].ret

\* C13 as stated, the send with a context that is done: a transfer whose
\* caller's context is done leaves the socket of the Sender open.
C13_CancelledSendLeavesOpen ==
    [][\A w \in Workers :
          (/\ Running(w, "goSend", "send")
           /\ Moves(w)
           /\ Top(w).w = NoProc \/ CtxDone(Top(w).ctx, Top(w).w))
          => sock'[Top(w).conn]]_vars

\* C13 as amended: cancelling the context of a send closes nothing.  The
\* caller that leaves by its context returns the context's error while the
\* transfer is still running, and that step changes neither the socket nor the
\* transfer.  The transfer then runs to its end, and the socket is open after
\* it if and only if it succeeded, also for a caller whose context was done
\* before the call.
C13_CancelStep ==
    /\ (cancelled' # cancelled) => (sock' = sock /\ closes' = closes /\ notif' = notif)
    /\ \A p \in Users :
        (Running(p, "Send", "wait") /\ Moves(p) /\ rv[Top(p).w] = NoValue) =>
            LET w == Top(p).w IN
            /\ CtxDone(Top(p).ctx, p)
            /\ Depth(p) = 1 => Returned(p, ErrCanceled)'
            /\ sock' = sock /\ closes' = closes /\ notif' = notif /\ slock' = slock
            /\ ~Idle(w)
            /\ stack'[w] = [stack[w] EXCEPT ![1] = [@ EXCEPT !.w = NoProc]]
    /\ \A w \in Workers :
        (/\ Running(w, "goSend", "send")
         /\ Moves(w)
         /\ Top(w).w = NoProc \/ CtxDone(Top(w).ctx, Top(w).w)) =>
            LET c == Top(w).conn IN
            /\ SendEnds(w, ErrNil) =>
                  /\ sock'[c] = sock[c]
                  /\ closes' = closes
                  /\ wire'[c] = Append(wire[c], Top(w).msg.type)
            /\ ~SendEnds(w, ErrNil) => (~sock'[c] /\ wire' = wire)

C13_CancelNeverCloses == [][C13_CancelStep]_vars

\* C13 witness: a send returned the context's error before its transfer had
\* ended, and the transfer has since failed and closed the Sender.
C13_Witness ==
    \E p \in Users :
        /\ Idle(p) /\ result[p].op = "Send" /\ result[p].ret = ErrCanceled
        /\ ops = 2
        /\ ~sock[1] /\ opens[1] = 1
        /\ notif[1] = <<SendFailure(ErrSend)>>
        /\ \A w \in Workers : Idle(w)

\* the send goroutines in sock.Send on Sender c
Transfers(c) == {w \in Workers : Running(w, "goSend", "send") /\ Top(w).conn = c}

\* C14: at most one sock.Send is in progress on a Sender at any time, the
\* Sender's lock is held while it is, and no other goroutine opens or closes
\* the socket meanwhile, also when the caller of the send has left by its
\* context.
C14_OneTransferInv ==
    \A c \in Conns :
        /\ Cardinality(Transfers(c)) <= 1
        /\ Transfers(c) # {} => (slock[c] /\ sock[c])

C14_OneTransferStep ==
    \A c \in Conns, w \in Workers :
        (w \in Transfers(c) /\ ~Moves(w)) =>
            /\ sock'[c] = sock[c]
            /\ opens'[c] = opens[c]
            /\ closes'[c] = closes[c]
            /\ wire'[c] = wire[c]
            /\ slock'[c]

C14_SendsSerialized == [](C14_OneTransferInv) /\ [][C14_OneTransferStep]_vars

\* C14 witness: the caller of a send has left by its context, its transfer
\* is still in progress, and a Close of the same Sender waits for the
\* Sender's lock.
C14_Witness ==
    \E w \in Transfers(1) :
        /\ Top(w).w = NoProc
        /\ slock[1]
        /\ \E p \in Users : Running(p, "Close", "lock") /\ Top(p).conn = 1

\* ---- Processors.ProcessWRP ----
NonNil == {j \in 1..Len(chain.procs) : chain.procs[j] # "nil"}
Invoked == Range(chain.invoked)
\* the entries whose result is not ErrNotHandled
Handling == {j \in NonNil : ~IsNotHandled(Handle(chain.procs[j], chain.type))}
First(S) == CHOOSE j \in S : \A k \in S : j <= k

\* the entries are invoked in the order of the slice, nil entries and nothing
\* else are passed over, and nothing is invoked after an entry whose result is
\* not ErrNotHandled
C15_InOrder ==
    /\ \A a, b \in 1..Len(chain.invoked) :
         a < b => chain.invoked[a] < chain.invoked[b]
    /\ \A j \in Invoked : \A k \in NonNil : k < j => k \in Invoked
    /\ Invoked \subseteq NonNil
    /\ \A j \in Invoked :
         (\E k \in Invoked : k > j) => IsNotHandled(Handle(chain.procs[j], chain.type))
    /\ \A a \in 1..Len(chain.rets) :
         chain.rets[a] = Handle(chain.procs[chain.invoked[a]], chain.type)

\* C15: a call of the chain whose context is not cancelled invokes the non-nil
\* entries in the order of the slice up to and including the first whose result
\* is not ErrNotHandled (errors.Is), returns that result (an error or nil) and
\* invokes nothing after it; when every entry returns ErrNotHandled, or every
\* entry is nil, or the slice is empty, it invokes every non-nil entry and
\* returns ErrNotHandled.  Under any context the entries invoked are in order
\* and none follows one that handled the message.
C15_FirstHandlerDecides ==
    /\ C15_InOrder
    /\ (chain.pc = "done" /\ ~chain.done) =>
         IF Handling = {}
         THEN Invoked = NonNil /\ chain.ret = ErrNotHandled
         ELSE /\ Invoked = {j \in NonNil : j <= First(Handling)}
              /\ chain.ret = Handle(chain.procs[First(Handling)], chain.type)

C15_Witness ==
    /\ chain.pc = "done" /\ ~chain.done
    /\ Len(chain.procs) = 3
    /\ chain.procs[1] = "wrapsNotHandled"
    /\ chain.procs[2] = "handled"
    /\ chain.procs[3] = "fails"
    /\ chain.invoked = <<1, 2>>
    /\ chain.ret = ErrNil

\* C16 as stated: a call with a cancelled context invokes nothing and returns
\* the context's error, and a call whose context is cancelled while entry i runs
\* and entry i returns ErrNotHandled invokes nothing after i and returns the
\* context's error.
C16_CancelledAlwaysReturnsCtxErr ==
    chain.pc = "done" =>
        /\ chain.pre => chain.invoked = <<>> /\ chain.ret = ErrCanceled
        /\ (chain.during > 0 /\ IsNotHandled(Handle(chain.procs[chain.during], chain.type)))
              => /\ \A j \in Invoked : j <= chain.during
                 /\ chain.ret = ErrCanceled

\* C16: the chain checks the context at the head of every iteration, before
\* every element of the slice (nil or not) and not after the last one.  A call
\* with a cancelled context invokes nothing and returns the context's error,
\* unless the slice is empty: then it returns ErrNotHandled.  A call whose
\* context is cancelled while entry i runs, entry i returning ErrNotHandled,
\* invokes nothing after i and returns the context's error, unless i is the
\* last element of the slice: then it returns ErrNotHandled.
C16_CheckedBeforeEachEntry ==
    chain.pc = "done" =>
        /\ chain.pre =>
              /\ chain.invoked = <<>>
              /\ chain.ret = IF chain.procs = <<>> THEN ErrNotHandled ELSE ErrCanceled
        /\ (chain.during > 0 /\ IsNotHandled(Handle(chain.procs[chain.during], chain.type)))
              => /\ \A j \in Invoked : j <= chain.during
                 /\ chain.ret = IF chain.during = Len(chain.procs)
                                THEN ErrNotHandled ELSE ErrCanceled

C16_Witness ==
    /\ chain.pc = "done"
    /\ ~chain.pre
    /\ chain.during = 1
    /\ Len(chain.procs) = 2
    /\ chain.procs[1] = "notHandled"
    /\ chain.procs[2] = "handled"
    /\ chain.invoked = <<1>>
    /\ chain.ret = ErrCanceled

\* ---- the filters ----
\* the results of the entries of the given kind that were invoked
ResultsOf(kind) ==
    {chain.rets[a] : a \in {b \in 1..Len(chain.rets) : chain.procs[chain.invoked[b]] = kind}}

\* C17: ErrorOnUnsupportedMsgTypes returns an error wrapping ErrUnsupported for
\* a type that is negative, or LastMessageType or beyond, or Invalid0 or
\* Invalid1, and ErrNotHandled for every other type.
C17_UnsupportedFilter ==
    \A err \in ResultsOf("unsupported") :
        IF \/ chain.type \notin Invalid0MessageType..(LastMessageType - 1)
           \/ chain.type \in {Invalid0MessageType, Invalid1MessageType}
        THEN ErrUnsupported \subseteq err /\ ~IsNotHandled(err)
        ELSE err = ErrNotHandled

C17_Witness ==
    /\ chain.type = LastMessageType
    /\ \E err \in ResultsOf("unsupported") : ErrUnsupported \subseteq err

\* C18: ErrorOnLocalMsgTypes returns ErrLocalDisallowed exactly for the
\* ServiceRegistration, ServiceAlive and Authorization types, and ErrNotHandled
\* for every other type.
C18_LocalFilter ==
    \A err \in ResultsOf("local") :
        /\ err = ErrLocalDisallowed <=>
              chain.type \in {ServiceRegistrationMessageType, ServiceAliveMessageType,
                              AuthorizationMessageType}
        /\ err # ErrLocalDisallowed => err = ErrNotHandled

C18_Witness ==
    /\ chain.type = ServiceAliveMessageType
    /\ ErrLocalDisallowed \in ResultsOf("local")

\* ---- Server.handleRegisterMsg ----
Handled(r) == stack[r] # <<>> /\ stack[r][1].op = "handleRegisterMsg"
ValidRegistration(msg) ==
    msg.type = "register" /\ msg.ServiceName # NoName /\ msg.URL # NoURL

\* the handler's own step: a message that is no registration is not handled,
\* a registration without a service name or without a URL is invalid, and
\* neither touches the table or a Sender; any other registration calls upsert
\* for the service name
C19_HandlerStep ==
    \A r \in Routines :
        (Running(r, "handleRegisterMsg", "check") /\ Moves(r)) =>
            LET msg == Top(r).msg IN
            IF ~ValidRegistration(msg)
            THEN /\ stack'[r] = <<>>
                 /\ result'[r].op = "handleRegisterMsg" /\ result'[r].msg = msg
                 /\ result'[r].ret = IF msg.type # "register"
                                     THEN ErrNotHandled ELSE ErrInvalidMsg
                 /\ UNCHANGED <<senders, smlock, connVars>>
            ELSE /\ Len(stack'[r]) = 2
                 /\ stack'[r][2].op = "upsert" /\ stack'[r][2].pc = "new"
                 /\ stack'[r][2].name = msg.ServiceName
                 /\ UNCHANGED <<senders, result>>

\* the handler returns when, and what, the upsert it called returns: the
\* factory's error, the error of the dial, or nil
C19_UpsertResult ==
    \A r \in Routines :
        (Handled(r) /\ Depth(r) >= 2 /\ stack'[r] = <<>>) =>
            LET u == stack[r][2] IN
            /\ u.op = "upsert" /\ u.name = stack[r][1].msg.ServiceName
            /\ u.pc \in {"new", "failed", "ret"}
            /\ result'[r].op = "handleRegisterMsg"
            /\ result'[r].ret = IF u.pc = "new" THEN ErrFactory
                                ELSE IF u.pc = "failed" THEN u.err
                                ELSE ErrNil

\* C19: handleRegisterMsg returns errInvalidMsg and leaves the table unchanged
\* for a registration with an empty service name or an empty URL, calls upsert
\* for the service name and returns its result for a registration that has
\* both, and returns ErrNotHandled without touching the table for any other
\* message type.
C19_RegistrationHandler == [][C19_HandlerStep /\ C19_UpsertResult]_vars

C19_Witness ==
    \E r \in Routines :
        /\ senders["B"] # NoConn /\ sock[senders["B"]]
        /\ senders["A"] = NoConn
        /\ stack[r] = <<>>
        /\ result[r].op = "handleRegisterMsg"
        /\ result[r].msg = RegMsg("register", "A", NoURL)
        /\ result[r].ret = ErrInvalidMsg

\* ---- Server.Start, Server.Stop and the heartbeat ----
\* the goroutines that run sendHeartbeat
Emitters == {h \in Routines : stack[h] # <<>> /\ stack[h][1].op = "sendHeartbeat"}

C20_AtMostOne == Cardinality(Emitters) <= 1

\* a Start on a Server whose heartbeat runs starts no goroutine, and a Stop
\* returns only when no heartbeat goroutine is left
C20_StartStopStep ==
    \A p \in Users :
        /\ (Running(p, "Start", "lock") /\ Moves(p) /\ Emitters # {})
              => Emitters' = Emitters /\ stack'[p] = <<>>
        /\ (Running(p, "Stop", "wait") /\ Moves(p))
              => Emitters = {} /\ Emitters' = {}

\* C20: over every interleaving of Start and Stop calls at most one
\* sendHeartbeat goroutine exists at any time: a Start on a started Server
\* starts none, and a Stop does not return before the goroutine it cancelled
\* has exited.
C20_OneHeartbeat == [](C20_AtMostOne) /\ [][C20_StartStopStep]_vars

C20_Witness ==
    /\ ops = 2
    /\ Cardinality(Emitters) = 1
    /\ \A p \in Users : stack[p] = <<>> /\ result[p].op = "Start" /\ result[p].ret = ErrNil

\* ---- Receiver ----
\* the loops whose wrapper has not finished, and the reasons no transport
\* error is part of
Loops == {r \in Routines : IsLoop(r)}
Transport == ErrRecv \cup ErrClosed \cup ErrRecvTimeout
ByCancelOnly(reason) == reason \cap Transport = {}

\* C21 as stated: the reason the close listeners get for a Receiver that was
\* closed by Close(), without a transport error, is nil.
C21_CancelReasonIsNil ==
    \A i \in DOMAIN rcv.notif : ByCancelOnly(rcv.notif[i]) => rcv.notif[i] = ErrNil

\* every loop that was started calls the close listeners once, when its
\* wrapper ends, and no reason is nil
C21_OncePerLoop ==
    /\ Len(rcv.notif) + Cardinality(Loops) = rcv.opened
    /\ \A i \in DOMAIN rcv.notif :
         /\ rcv.notif[i] # ErrNil
         /\ ByCancelOnly(rcv.notif[i]) => rcv.notif[i] = ErrCanceled

\* the listeners are called by the wrapper only, with the error its receive
\* returned, and a receive that ends on ctx.Done() returns context.Canceled
C21_NotifyStep ==
    /\ rcv'.notif # rcv.notif =>
         \E r \in Routines :
            /\ Running(r, "wrapper", "notify")
            /\ stack'[r] = <<>>
            /\ rcv'.notif = Append(rcv.notif, Top(r).err)
    /\ \A r \in Routines :
         (/\ Running(r, "wrapper", "receive") /\ Moves(r)
          /\ stack'[r][1].pc = "notify"
          /\ ~(Top(r).recv.st = "error" /\ Top(r).recv.err # ErrRecvTimeout))
            => cancelled[r] /\ stack'[r][1].err = ErrCanceled

\* C21: a Receiver closed by Close(), without a transport error, calls its
\* close listeners exactly once, and the reason they get is context.Canceled,
\* never nil.
C21_CloseNotifiesCancel == [](C21_OncePerLoop) /\ [][C21_NotifyStep]_vars

C21_Witness ==
    /\ rcv.notif = <<ErrCanceled>>
    /\ rcv.opened = 1
    /\ Loops = {}
    /\ \E p \in Users : stack[p] = <<>> /\ result[p].op = "RClose"

\* the goroutines that visit onMsg with a decoded frame
Dispatching == {d \in Routines : stack[d] # <<>> /\ stack[d][1].op = "observe"}

\* C22: when a Close() of a running Receiver returns, the receive loop and
\* its pending sock.Recv() have finished and no goroutine that visits onMsg
\* with a frame received before is still running.
C22_CloseDrainsDispatch ==
    [][\A p \in Users :
          (Running(p, "RClose", "wait") /\ Moves(p)) =>
              /\ \A r \in Loops : ~SocketOpen(r) /\ stack[r][1].recv.st # "pending"
              /\ Dispatching = {}]_vars

\* C23 as stated: a Close() of a running Receiver returns the error of the
\* receive loop joined with the context's error, and nil only when the
\* Receiver was not running.
C23_CloseReturnsLoopError ==
    [][\A p \in Users :
          (Running(p, "RClose", "wait") /\ Moves(p)) =>
              ErrCanceled \subseteq result'[p].ret]_vars

\* a Close() returns nil from both of its ends: at once when r.cancel is nil,
\* and after the loop it cancelled and that loop's sock.Recv() have finished
C23_CloseStep ==
    \A p \in Users :
        (Depth(p) = 1 /\ Top(p).op = "RClose" /\ Moves(p) /\ stack'[p] = <<>>) =>
            /\ result'[p].op = "RClose"
            /\ result'[p].ret = ErrNil
            /\ Top(p).pc = "lock" => rcv.cancel = NoProc /\ rcv' = rcv
            /\ Top(p).pc = "wait" =>
                  /\ rcv.wg = 0
                  /\ \A r \in Loops : ~SocketOpen(r) /\ stack[r][1].recv.st # "pending"

\* C23: Close() returns nil whether or not the Receiver was running; the
\* error of the receive loop it stopped, joined with the context's error, is
\* what the close listeners get, not what Close() returns.
C23_CloseReturnsNil == [][C23_CloseStep]_vars

C23_Witness ==
    \E p \in Users, r \in Loops :
        /\ stack[p] = <<>>
        /\ result[p].op = "RClose" /\ result[p].ret = ErrNil
        /\ Running(r, "wrapper", "notify")
        /\ stack[r][1].err = ErrCanceled
        /\ rcv.notif = <<>>

\* C24: the message subscriber observes the decoded frames in the order in
\* which they were received.
C24_ObservedInReceiptOrder ==
    \A i, j \in DOMAIN rcv.seen : i < j => rcv.seen[i] < rcv.seen[j]

\* the loop of r takes a case of its select
Selects(r) ==
    /\ Running(r, "wrapper", "receive")
    /\ Top(r).recv.st # "pending" \/ cancelled[r]
    /\ stack'[r] # <<>>
    /\ \/ stack'[r][1].pc # "receive"
       \/ stack'[r][1].seq # stack[r][1].seq
Fatal(recv) == recv.st = "error" /\ recv.err # ErrRecvTimeout

\* the loop ends only with a done context or a Recv error that is no
\* timeout; after a timeout, a frame that does not decode and a frame that
\* decodes it stays in receive with its socket open and has started the next
\* sock.Recv()
C25_LoopStep ==
    \A r \in Routines :
        Selects(r) =>
            IF stack'[r][1].pc # "receive"
            THEN cancelled[r] \/ Fatal(Top(r).recv)
            ELSE /\ ~Fatal(Top(r).recv) /\ Top(r).recv.st # "pending"
                 /\ Len(stack'[r]) = 1
                 /\ stack'[r][1].recv = Pending
                 /\ stack'[r][1].seq = stack[r][1].seq + 1
                 /\ rcv'.wg = rcv.wg + 1
                 /\ rcv'.nrx = rcv.nrx + (IF Top(r).recv.st = "bytes" THEN 1 ELSE 0)

\* C25: the receive loop stops only when its context is cancelled or Recv
\* fails with an error that is no timeout; a timeout, a frame that does not
\* decode and a frame that decodes leave it running with its socket open, and
\* it issues the next receive.
C25_LoopStopsOnlyOnCancelOrError == [][C25_LoopStep]_vars

C25_Witness ==
    \E r \in Routines :
        /\ Running(r, "wrapper", "receive")
        /\ ~cancelled[r]
        /\ Top(r).seq = 3
        /\ Top(r).recv = Pending
        /\ rcv.nrx = 1

\* the loops that are in receive: their sockets are open
Receiving == {r \in Routines : SocketOpen(r)}

C26_AtMostOneLoop == Cardinality(Receiving) <= 1

\* a Listen of a Receiver whose r.cancel is set returns nil and changes
\* nothing, a Listen whose newSocket fails returns the error, starts no loop
\* and leaves r.cancel nil, and any other Listen opens one socket and starts
\* one loop
C26_ListenStep ==
    \A p \in Users :
        (Running(p, "Listen", "lock") /\ Moves(p)) =>
            /\ stack'[p] = <<>>
            /\ IF rcv.cancel # NoProc
               THEN rcv' = rcv /\ Receiving' = Receiving /\ result'[p].ret = ErrNil
               ELSE IF result'[p].ret # ErrNil
               THEN /\ rcv' = rcv /\ Receiving' = Receiving
                    /\ result'[p].ret = ErrListen
               ELSE /\ rcv'.opened = rcv.opened + 1
                    /\ Receiving = {}
                    /\ Cardinality(Receiving') = 1
                    /\ rcv'.cancel \in Receiving'

\* C26: at most one receive loop of a Receiver runs at any time: a Listen on
\* a running Receiver is a no-op that opens no socket and starts no loop, and
\* a Listen whose bind fails starts no loop and leaves the Receiver not
\* running, so that a later Listen binds again.
C26_OneLoop == [](C26_AtMostOneLoop) /\ [][C26_ListenStep]_vars

C26_Witness ==
    /\ ops = 2
    /\ rcv.opened = 1
    /\ Cardinality(Receiving) = 1
    /\ \E p, q \in Users :
         /\ stack[p] = <<>> /\ result[p].op = "Listen" /\ result[p].ret = ErrListen
         /\ stack[q] = <<>> /\ result[q].op = "Listen" /\ result[q].ret = ErrNil

\* ---- the table prunes itself ----
\* Sender c is in the table and a failed send has closed it: its send
\* goroutine is about to call the close listeners
FailedInTable(c) ==
    /\ c \in Registered
    /\ ~sock[c]
    /\ \E w \in Workers :
         /\ stack[w] # <<>>
         /\ stack[w][1].op = "goSend" /\ stack[w][1].pc = "visit"
         /\ stack[w][1].conn = c

\* C27: a registered Sender that a failed send has closed is eventually in no
\* entry of the table, without a Remove or Close by the user.
C27_FailedSenderIsPruned ==
    \A c \in Conns : FailedInTable(c) ~> (c \notin Registered)

\* ---- a registration whose authorization send fails ----
\* no Sender but c was ever built for name: nothing replaces c in the table
OnlySenderOf(c, name) == \A c2 \in Conns \ {c} : owner[c2] # name

\* C28: when upsert(name) returns nil the table holds the Sender it dialed
\* under name, whatever became of the authorization send (no user calls Remove
\* or Close, and no other Sender was built for name).
C28_RegistrationStands ==
    [][\A p \in Users :
          (/\ stack[p] # <<>>
           /\ stack[p][1].op = "upsert"
           /\ stack'[p] = <<>>
           /\ result'[p].ret = ErrNil
           /\ OnlySenderOf(stack[p][1].conn, stack[p][1].name))
          => senders'[stack[p][1].name] = stack[p][1].conn]_vars

\* ---- the Server's chains ----
\* how often the call has invoked the entry kind of its chain
Times(kind) ==
    Cardinality({a \in 1..Len(chain.invoked) : chain.procs[chain.invoked[a]] = kind})
Ran(kind) == Times(kind) > 0
\* the types ErrorOnUnsupportedMsgTypes lets through, and the types that are
\* local to the bridge
Supported(t) == t > Invalid1MessageType /\ t < LastMessageType
LocalTypes == {ServiceRegistrationMessageType, ServiceAliveMessageType,
               AuthorizationMessageType}

\* C29: in the chain the Receiver runs on a decoded message, egressWRP (the
\* egress observers) is invoked only for a type that is supported and is none of
\* ServiceRegistration, ServiceAlive and Authorization; a registration never
\* reaches it; and whatever the egress observers return, a call that reached
\* them returns nil.  A call whose context is not cancelled invokes the rx
\* observers, whatever the type, and for a registration invokes
\* handleRegisterMsg and returns what it returned.
C29_InboundPipeline ==
    chain.procs = ReceiveChain =>
        /\ Ran("egressWRP") =>
              Supported(chain.type) /\ chain.type \notin LocalTypes
        /\ chain.type = ServiceRegistrationMessageType => ~Ran("egressWRP")
        /\ (chain.pc = "done" /\ Ran("egressWRP")) => chain.ret = ErrNil
        /\ \A k \in PipelineKinds : Times(k) <= 1
        /\ (chain.pc = "done" /\ ~chain.done) =>
              /\ Ran("rxObservers")
              /\ chain.type = ServiceRegistrationMessageType =>
                    /\ Ran("handleRegisterMsg")
                    /\ chain.ret = chain.env.reg

C29_Witness ==
    /\ chain.procs = ReceiveChain
    /\ chain.pc = "done" /\ ~chain.done
    /\ chain.invoked = <<1, 2, 3, 4, 5>>
    /\ chain.env.egress = ErrHandler
    /\ chain.ret = ErrNil

\* C30: in the chain Server.ProcessWRP runs, the tx observers and the senderMap
\* are invoked only for a type that passed both filters, the tx observers at
\* most once.  A call whose context is not cancelled returns the filter's error
\* for an unsupported or local type, having invoked neither the tx observers nor
\* the senderMap, and for any other type invokes the tx observers exactly once
\* and then the senderMap, whatever the senderMap returns.
C30_OutboundPipeline ==
    chain.procs = IngressChain =>
        /\ (Ran("txObservers") \/ Ran("senders")) =>
              Supported(chain.type) /\ chain.type \notin LocalTypes
        /\ Times("txObservers") <= 1
        /\ (chain.pc = "done" /\ ~chain.done) =>
              /\ ~Supported(chain.type) =>
                    /\ ErrUnsupported \subseteq chain.ret
                    /\ ~Ran("txObservers") /\ ~Ran("senders")
              /\ (Supported(chain.type) /\ chain.type \in LocalTypes) =>
                    /\ chain.ret = ErrLocalDisallowed
                    /\ ~Ran("txObservers") /\ ~Ran("senders")
              /\ (Supported(chain.type) /\ chain.type \notin LocalTypes) =>
                    /\ Times("txObservers") = 1
                    /\ Times("senders") = 1
                    /\ chain.ret = IF IsNotHandled(chain.env.route)
                                   THEN ErrNotHandled ELSE chain.env.route

C30_Witness ==
    /\ chain.procs = IngressChain
    /\ chain.pc = "done" /\ ~chain.done
    /\ chain.invoked = <<1, 2, 3, 4>>
    /\ chain.env.route = ErrSend
    /\ chain.ret = ErrSend

\* ---- the table lock and the transport ----
\* p holds sm.lock and waits in s.Close() for the lock of Sender c, which the
\* send goroutine w holds across sock.Send
HoldsTableAcrossSend(p, w) ==
    /\ smlock = p
    /\ Running(p, "Close", "lock")
    /\ Running(w, "goSend", "send")
    /\ Top(w).conn = Top(p).conn
    /\ slock[Top(w).conn]

\* C31: while a send on a Sender is in sock.Send, no operation holds sm.lock
\* waiting for that send to finish.
C31_NoTableLockAcrossSend ==
    \A p \in Procs, w \in Workers : ~HoldsTableAcrossSend(p, w)

\* ---- Dial ----
\* C32: a Dial on a Sender that has a socket returns nil and keeps that socket;
\* a Dial that fails leaves the Sender without a socket; neither notifies the
\* close listeners.  A ProcessWRP on a Sender without a socket returns
\* ErrConnClosed, sends nothing and notifies no close listener.
C32_DialKeepsOrLeavesClosed ==
    [][\A p \in Users :
          /\ (Running(p, "Dial", "lock") /\ stack'[p] # stack[p]) =>
                LET c == Top(p).conn IN
                /\ notif' = notif
                /\ wire' = wire
                /\ sock[c] =>
                      /\ result'[p].ret = ErrNil
                      /\ sock'[c]
                      /\ opens' = opens
                /\ (~sock[c] /\ result'[p].ret # ErrNil) =>
                      /\ result'[p].ret = ErrDial
                      /\ ~sock'[c]
                      /\ opens' = opens
                /\ (~sock[c] /\ result'[p].ret = ErrNil) =>
                      /\ sock'[c]
                      /\ opens'[c] = opens[c] + 1
          /\ (/\ Running(p, "Send", "lock")
              /\ ~sock[Top(p).conn]
              /\ stack'[p] # stack[p]) =>
                /\ stack'[p] = <<>>
                /\ result'[p].ret = ErrConnClosed
                /\ notif' = notif
                /\ wire' = wire
                /\ sock' = sock]_vars

C32_Witness ==
    \E p \in Users, q \in Users :
        /\ Idle(p) /\ result[p].op = "Dial" /\ result[p].ret = ErrDial
        /\ Idle(q) /\ result[q].op = "Send" /\ result[q].ret = ErrConnClosed
        /\ opens[result[p].conn] = 0
        /\ result[q].conn = result[p].conn
        /\ notif[result[p].conn] = <<>>
        /\ wire[result[p].conn] = <<>>

\* ---- a Receiver that is started again ----
\* C33: the context of the running receive loop is cancelled only by a Close
\* the user calls, or by the Close its own wrapper calls once its receive has
\* returned; never by the wrapper of an earlier loop.
C33_RestartedLoopKeepsRunning ==
    [][\A r \in Routines :
          (rcv.cancel = r /\ ~cancelled[r] /\ cancelled'[r]) =>
              \/ \E p \in Users :
                    Running(p, "RClose", "lock") /\ stack'[p] # stack[p]
              \/ Running(r, "RClose", "lock") /\ stack'[r] # stack[r]]_vars

\* ---- a Sender that an upsert has replaced ----
\* Sender c was built for a name under which the table now holds another Sender
Superseded(c) ==
    /\ owner[c] # NoName
    /\ senders[owner[c]] \notin {c, NoConn}
    /\ ~BeingInstalled(c)

C34_SupersededIsClosed == \A c \in Conns : Superseded(c) => ~sock[c]

C34_SendStep ==
    \A c \in Conns : Superseded(c) =>
        /\ wire'[c] = wire[c]
        /\ \A p \in Procs :
              (Running(p, "Send", "lock") /\ Top(p).conn = c /\ stack'[p] # stack[p]) =>
                  /\ Depth(p) > 1
                  /\ stack'[p] = Popped(p, ErrConnClosed).stk

\* C34: a Sender that an upsert has replaced in the table is closed: nothing is
\* sent on it any more, and a dispatch that took it from the table before the
\* replacement and calls its ProcessWRP afterwards gets ErrConnClosed.
C34_NoSendOnReplaced == [](C34_SupersededIsClosed) /\ [][C34_SendStep]_vars

C34_Witness ==
    \E p \in Users :
        /\ Idle(p)
        /\ result[p].op = "ProcessWRP"
        /\ result[p].msg.type = "event"
        /\ result[p].called = <<1>>
        /\ result[p].ret = ErrConnClosed
        /\ senders["A"] = 2 /\ sock[2]
        /\ wire[2] = <<"auth">>
        /\ Len(wire[1]) = 1

\* ---- a receive loop that a transport error ends ----
\* r.cancel belongs to a loop that is in receive or whose wrapper has not yet
\* returned from r.Close(); every loop that was started has called the close
\* listeners once or has still to; no reason is nil
C35_NotRunningAfterClose ==
    /\ rcv.cancel # NoProc =>
          /\ IsLoop(rcv.cancel)
          /\ SocketOpen(rcv.cancel) \/ Depth(rcv.cancel) = 2
    /\ Len(rcv.notif) + Cardinality(Loops) = rcv.opened
    /\ \A r \in Loops : stack[r][1].pc = "notify" => stack[r][1].err # ErrNil

\* a loop whose context is not cancelled ends on an error of sock.Recv that is
\* no timeout, closes the socket and keeps that error; the wrapper hands it to
\* the close listeners when its r.Close() has returned; a Listen that finds
\* r.cancel nil and gets a socket starts a new loop
C35_ErrorStep ==
    /\ \A r \in Routines :
         (/\ Running(r, "wrapper", "receive") /\ Moves(r)
          /\ stack'[r] # <<>>
          /\ stack'[r][1].pc = "notify"
          /\ ~cancelled[r])
            => /\ Top(r).recv.st = "error"
               /\ Top(r).recv.err # ErrRecvTimeout
               /\ stack'[r][1].op = "wrapper"
               /\ stack'[r][1].err = Top(r).recv.err
    /\ \A r \in Routines :
         (Running(r, "wrapper", "notify") /\ Moves(r)) =>
             /\ rcv'.notif = Append(rcv.notif, Top(r).err)
             /\ rcv.cancel # r
             /\ stack'[r] = <<>>
    /\ \A p \in Procs :
         (/\ Running(p, "Listen", "lock") /\ Moves(p)
          /\ rcv.cancel = NoProc
          /\ stack'[p] = <<>> /\ p \in Users /\ result'[p].ret = ErrNil)
            => /\ rcv'.opened = rcv.opened + 1
               /\ \E r \in Routines :
                     /\ rcv'.cancel = r
                     /\ stack[r] = <<>>
                     /\ stack'[r] = <<LoopFrame>>

\* C35: a receive loop that ends on a transport error that is no timeout has
\* closed its socket, its close listeners are called exactly once, with that
\* error, and by then r.cancel is nil again, so that a Listen after it opens a
\* new socket and starts a new loop.
C35_ErrorEndsLoopOnce == [](C35_NotRunningAfterClose) /\ [][C35_ErrorStep]_vars

C35_Witness ==
    /\ rcv.notif = <<ErrRecv>>
    /\ rcv.opened = 2
    /\ rcv.cancel # NoProc
    /\ SocketOpen(rcv.cancel)
    /\ Cardinality(Loops) = 1

\* ---- Server.Start and the Receiver ----
\* C36: when a Start returns nil a receive loop of the Server's Receiver is
\* running; in particular a Start after one whose Listen failed does not
\* return nil without a loop.
C36_StartedMeansListening ==
    [][\A p \in Users :
          (/\ Depth(p) > 0
           /\ stack[p][1].op = "Start"
           /\ stack'[p] = <<>>
           /\ result'[p].ret = ErrNil)
          => \E r \in Routines :
                /\ stack'[r] # <<>>
                /\ stack'[r][1].op = "wrapper"
                /\ stack'[r][1].pc = "receive"]_vars

\* ---- a stopped Server ----
\* no heartbeat cancel function is set and no Stop is in progress: the Server
\* was never started, or its last Stop has returned
Stopped ==
    /\ srv.cancel = NoProc
    /\ \A p \in Users : ~(Depth(p) > 0 /\ stack[p][1].op = "Stop")

\* C37: while the Server is stopped the table is empty and no Sender has a
\* socket: a registration received before Stop adds none after Stop returned.
C37_StoppedTableStaysEmpty ==
    Stopped => /\ \A n \in Names : senders[n] = NoConn
               /\ \A c \in Conns : ~sock[c]

\* ---- the heartbeat of a stopped and of a running Server ----
\* while the Server is stopped no sendHeartbeat goroutine exists and no
\* heartbeat is in sock.Send
C38_NoEmitterWhenStopped ==
    Stopped =>
        /\ Emitters = {}
        /\ \A w \in Workers :
              ~(Running(w, "goSend", "send") /\ Top(w).msg.type = "alive")

\* while the Server is stopped txObservers see no heartbeat and none goes out
\* on a Sender; a tick shows the ServiceAlive message to txObservers and calls
\* srv.senders.ProcessWRP with it, which takes every Sender of the table and
\* calls each of them
C38_TickStep ==
    /\ Stopped =>
          /\ srv'.ticks = srv.ticks
          /\ \A c \in Conns :
                wire'[c] # wire[c] => wire'[c][Len(wire'[c])] # "alive"
    /\ \A h \in Emitters :
          /\ (Running(h, "sendHeartbeat", "select") /\ Moves(h) /\ stack'[h] # <<>>) =>
                /\ srv'.ticks = srv.ticks + 1
                /\ stack'[h] = Call(h, Top(h),
                       Frame("ProcessWRP", "start", NoName, NoConn, "hb", AliveMsg))
          /\ (Running(h, "ProcessWRP", "start") /\ Moves(h)) =>
                /\ Len(stack'[h]) = Depth(h)
                /\ stack'[h][Depth(h)].snap = Registered
                /\ stack'[h][Depth(h)].todo = Registered
          /\ (Running(h, "ProcessWRP", "each") /\ Moves(h) /\ Top(h).todo = {}) =>
                Range(Top(h).called) = Top(h).snap

Held == {stack[d][1].seq : d \in Dispatching}

\* every decoded frame is with one goroutine that visits onMsg, or was
\* observed, once
C39_OncePerFrame ==
    /\ Len(rcv.seen) + Cardinality(Dispatching) = rcv.nrx
    /\ Cardinality(Range(rcv.seen)) = Len(rcv.seen)
    /\ Cardinality(Held) = Cardinality(Dispatching)
    /\ Range(rcv.seen) \cap Held = {}
    /\ Range(rcv.seen) \cup Held = 1..rcv.nrx

\* a loop that takes a frame that decodes starts one goroutine that visits
\* onMsg with it and goes on to the next sock.Recv(), whatever the goroutines
\* started for earlier frames are doing; a loop that takes a frame that does
\* not decode starts none
C39_FrameStep ==
    \A r \in Routines :
        (Selects(r) /\ stack'[r][1].pc = "receive") =>
            /\ stack'[r][1].recv = Pending
            /\ Top(r).recv.st = "bytes" =>
                  /\ rcv'.nrx = rcv.nrx + 1
                  /\ \E d \in Routines :
                        /\ stack[d] = <<>>
                        /\ stack'[d] =
                             <<SubscriberFrame("observe", Top(r).recv.msg, rcv.nrx + 1)>>
                        /\ \A q \in Routines \ {r, d} : stack'[q] = stack[q]
                  /\ rcv'.seen = rcv.seen
            /\ Top(r).recv.st # "bytes" =>
                  /\ rcv'.nrx = rcv.nrx
                  /\ rcv'.seen = rcv.seen
                  /\ \A q \in Routines \ {r} : stack'[q] = stack[q]

\* C39: every frame the loop decodes goes exactly once to the subscribers, on
\* a goroutine of its own, a frame that does not decode goes to none, and the
\* loop receives the next frame while a subscriber still holds an earlier one.
C39_DispatchOncePerFrame == [](C39_OncePerFrame) /\ [][C39_FrameStep]_vars

C39_Witness ==
    /\ rcv.nrx = 2
    /\ rcv.seen = <<>>
    /\ \E r \in Routines, d1 \in Routines, d2 \in Routines :
          /\ SocketOpen(r)
          /\ stack[r][1].recv = Pending
          /\ d1 # d2
          /\ d1 \in Dispatching
          /\ d2 \in Dispatching

\* ---- the first frame on a registered Sender ----
\* C40: the first frame transmitted on a Sender that upsert dialed for the
\* table is upsert's authorization message: no message routed through the
\* table precedes it on that Sender.
C40_AuthIsFirstFrame ==
    \A c \in Conns :
        (owner[c] # NoName /\ wire[c] # <<>>) => wire[c][1] = "auth"

====
